---- MODULE Spec2Model ----
(***************************************************************************)
(* The per-card animation scheduler of idea-execution/script.js            *)
(* (class Card: animate / update and the methods that touch the queue).    *)
(*                                                                         *)
(* JavaScript numbers are modelled as extended rationals: a pair <<n, d>>  *)
(* in lowest terms with d > 0, or d = 0 for the IEEE special values        *)
(* <<1, 0>> = +Infinity, <<-1, 0>> = -Infinity, <<0, 0>> = NaN.  Rounding  *)
(* of binary floating point is not modelled.                               *)
(***************************************************************************)
EXTENDS Integers, Sequences, FiniteSets, TLC

\* ------------------------------------------------------------------------
\* JavaScript number arithmetic
\* ------------------------------------------------------------------------
\* The operations are functions, so that an argument is evaluated once where
\* it is applied rather than once for every use in the body.
Abs(n) == IF n < 0 THEN -n ELSE n

Sign(n) == IF n > 0 THEN 1 ELSE IF n < 0 THEN -1 ELSE 0

Num == Int \X Int

gcd[a \in Nat, b \in Nat] == IF b = 0 THEN a ELSE gcd[b, a % b]

quotient[n \in Int, d \in Int] ==
    IF d = 0 THEN <<Sign(n), 0>>
    ELSE LET g == gcd[Abs(n), Abs(d)]
         IN  <<(Sign(d) * n) \div g, Abs(d) \div g>>

\* the number n/d, normalised
Q(n, d) == quotient[n, d]

NaN == <<0, 0>>
Zero == <<0, 1>>
One == <<1, 1>>
Two == <<2, 1>>
Four == <<4, 1>>
Half == <<1, 2>>

IsNaN(a) == a = NaN
IsFinite(a) == a[2] # 0

\* a * b; common factors are taken out before the products are formed
product[a \in Num, b \in Num] ==
    IF IsFinite(a) /\ IsFinite(b) /\ a[1] # 0 /\ b[1] # 0
    THEN LET g == gcd[Abs(a[1]), b[2]]
             h == gcd[Abs(b[1]), a[2]]
         IN  Q((a[1] \div g) * (b[1] \div h), (a[2] \div h) * (b[2] \div g))
    ELSE Q(a[1] * b[1], a[2] * b[2])

Mul(a, b) == product[a, b]

negation[a \in Num] == <<-a[1], a[2]>>

Neg(a) == negation[a]

sum[a \in Num, b \in Num] ==
    IF IsNaN(a) \/ IsNaN(b) THEN NaN
    ELSE IF ~IsFinite(a) /\ ~IsFinite(b) THEN (IF a = b THEN a ELSE NaN)
    ELSE IF ~IsFinite(a) THEN a
    ELSE IF ~IsFinite(b) THEN b
    ELSE LET g == gcd[a[2], b[2]]
         IN  Q(a[1] * (b[2] \div g) + b[1] * (a[2] \div g), (a[2] \div g) * b[2])

Add(a, b) == sum[a, b]

Sub(a, b) == sum[a, negation[b]]

\* a / b; a zero divisor is the positive zero: x / 0 is +-Infinity, 0 / 0 is NaN
ratio[a \in Num, b \in Num] ==
    IF IsNaN(a) \/ IsNaN(b) THEN NaN
    ELSE Q(a[1] * b[2] * (IF b[1] < 0 THEN -1 ELSE 1), a[2] * Abs(b[1]))

Div(a, b) == ratio[a, b]

\* a < b; false when either side is NaN
less[a \in Num, b \in Num] ==
    /\ ~IsNaN(a)
    /\ ~IsNaN(b)
    /\ a # b
    /\ IF ~IsFinite(a) THEN a[1] < 0
       ELSE IF ~IsFinite(b) THEN b[1] > 0
       ELSE a[1] * b[2] < b[1] * a[2]

Less(a, b) == less[a, b]

\* a >= b; false when either side is NaN
geq[a \in Num, b \in Num] == ~IsNaN(a) /\ ~IsNaN(b) /\ ~less[a, b]

Geq(a, b) == geq[a, b]

\* Math.min(a, b)
minimum[a \in Num, b \in Num] ==
    IF IsNaN(a) \/ IsNaN(b) THEN NaN
    ELSE IF less[b, a] THEN b ELSE a

MathMin(a, b) == minimum[a, b]

\* Math.pow(a, 3)
cube[a \in Num] == product[a, product[a, a]]

Cube(a) == cube[a]

\* ------------------------------------------------------------------------
\* Easing functions
\* ------------------------------------------------------------------------
easeOutCubic(t) == Sub(One, Cube(Sub(One, t)))

easeInOutCubic(t) ==
    IF Less(t, Half) THEN Mul(Four, Cube(t))
    ELSE Sub(One, Div(Cube(Add(Mul(Neg(Two), t), Two)), Two))

easeInCubic(t) == Cube(t)

\* easings a caller of Card.animate may pass besides the three above:
\* the identity, and a curve that ends at 1/2 instead of 1
linear(t) == t

halfWay(t) == Div(t, Two)

RepoEasings == {"easeOutCubic", "easeInOutCubic", "easeInCubic"}

\* anim.easing(progress)
CallEasing(easing, t) ==
    CASE easing = "easeOutCubic" -> easeOutCubic(t)
      [] easing = "easeInOutCubic" -> easeInOutCubic(t)
      [] easing = "easeInCubic" -> easeInCubic(t)
      [] easing = "linear" -> linear(t)
      [] easing = "halfWay" -> halfWay(t)

\* ------------------------------------------------------------------------
\* class Card
\* ------------------------------------------------------------------------
KnownProperties ==
    {"rotationY", "rotationX", "positionX", "positionY", "positionZ", "scale", "opacity"}

TILT_SMOOTHING == Q(3, 20)

XY(a, b) == [x |-> a, y |-> b]

XYZ(a, b, c) == [x |-> a, y |-> b, z |-> c]

\* the card as its constructor leaves it
NewCard(index) ==
    [ index |-> index,
      state |-> "available",
      isFlipped |-> FALSE,
      isHovered |-> FALSE,
      targetRotation |-> XY(Zero, Zero),
      currentRotation |-> XY(Zero, Zero),
      hoverTiltTarget |-> XY(Zero, Zero),
      tiltOffset |-> XY(Zero, Zero),
      baseRotationY |-> Zero,
      isSliding |-> FALSE,
      targetPosition |-> XYZ(Zero, Zero, Zero),
      currentPosition |-> XYZ(Zero, Zero, Zero),
      targetScale |-> One,
      currentScale |-> One,
      currentOpacity |-> Zero,
      materialOpacity |-> Zero,
      basePosition |-> XYZ(Zero, Zero, Zero),
      animations |-> <<>>,
      group |-> [rotation |-> XY(Zero, Zero),
                 position |-> XYZ(Zero, Zero, Zero),
                 scale |-> One] ]

\* setOpacity(value)
SetOpacity(card, value) ==
    [card EXCEPT !.currentOpacity = value, !.materialOpacity = value]

\* setPosition(x, y, z)
SetPosition(card, x, y, z) ==
    [card EXCEPT !.basePosition = XYZ(x, y, z),
                 !.targetPosition = XYZ(x, y, z),
                 !.currentPosition = XYZ(x, y, z),
                 !.group.position = XYZ(x, y, z)]

\* the animation object built by animate(); id is the object's identity
NewAnimation(id, property, from, to, duration, easing, onComplete) ==
    [ id |-> id,
      property |-> property,
      from |-> from,
      to |-> to,
      duration |-> duration,
      easing |-> easing,
      elapsed |-> Zero,
      onComplete |-> onComplete,
      isFlipAnimation |-> FALSE ]

\* animate(property, from, to, duration, easing, onComplete)
Animate(card, id, property, from, to, duration, easing, onComplete) ==
    [card EXCEPT !.animations =
        Append(@, NewAnimation(id, property, from, to, duration, easing, onComplete))]

\* an update that overwrites the elapsed time with the delta
AdvanceOverwrite(anim, dt) == [anim EXCEPT !.elapsed = dt]

\* anim.elapsed += deltaTime
Advance(anim, dt) == [anim EXCEPT !.elapsed = Add(@, dt)]

\* a progress that is not clamped to 1
ProgressUnclamped(anim) == Div(anim.elapsed, anim.duration)

\* const progress = Math.min(anim.elapsed / anim.duration, 1)
Progress(anim) == MathMin(Div(anim.elapsed, anim.duration), One)

\* an interpolation that forgets to take `from` off the span
InterpolateFullSpan(anim, easedProgress) ==
    Add(anim.from, Mul(anim.to, easedProgress))

\* anim.from + (anim.to - anim.from) * easedProgress
Interpolate(anim, easedProgress) ==
    Add(anim.from, Mul(Sub(anim.to, anim.from), easedProgress))

\* a chain whose positionY branch was copied from the positionZ branch and
\* still stores into currentPosition.z
WriteSlotCopied(card, property, value) ==
    CASE property = "rotationY" -> [card EXCEPT !.currentRotation.y = value]
      [] property = "rotationX" -> [card EXCEPT !.currentRotation.x = value]
      [] property = "positionX" -> [card EXCEPT !.currentPosition.x = value]
      [] property = "positionY" -> [card EXCEPT !.currentPosition.z = value]
      [] property = "positionZ" -> [card EXCEPT !.currentPosition.z = value]
      [] property = "scale" -> [card EXCEPT !.currentScale = value]
      [] property = "opacity" -> [card EXCEPT !.currentOpacity = value,
                                              !.materialOpacity = value]
      [] OTHER -> card

\* the if / else-if chain of update() that stores the value in the slot the
\* property names; a name outside the chain stores nothing
WriteSlot(card, property, value) ==
    CASE property = "rotationY" -> [card EXCEPT !.currentRotation.y = value]
      [] property = "rotationX" -> [card EXCEPT !.currentRotation.x = value]
      [] property = "positionX" -> [card EXCEPT !.currentPosition.x = value]
      [] property = "positionY" -> [card EXCEPT !.currentPosition.y = value]
      [] property = "positionZ" -> [card EXCEPT !.currentPosition.z = value]
      [] property = "scale" -> [card EXCEPT !.currentScale = value]
      [] property = "opacity" -> SetOpacity(card, value)
      [] OTHER -> card

\* the slot a property names, as the render loop reads it
Slot(card, property) ==
    CASE property = "rotationY" -> card.currentRotation.y
      [] property = "rotationX" -> card.currentRotation.x
      [] property = "positionX" -> card.currentPosition.x
      [] property = "positionY" -> card.currentPosition.y
      [] property = "positionZ" -> card.currentPosition.z
      [] property = "scale" -> card.currentScale
      [] property = "opacity" -> card.currentOpacity

\* a completion test that misses progress = 1
IsCompleteStrict(progress) == Less(One, progress)

\* if (progress >= 1)
IsComplete(progress) == Geq(progress, One)

\* a reset that leaves the queue as it is
ResetKeepsQueue(card) ==
    [card EXCEPT
        !.isFlipped = FALSE,
        !.isHovered = FALSE,
        !.isSliding = FALSE,
        !.currentRotation = XY(Zero, Zero),
        !.targetRotation = XY(Zero, Zero),
        !.hoverTiltTarget = XY(Zero, Zero),
        !.tiltOffset = XY(Zero, Zero),
        !.baseRotationY = Zero,
        !.currentScale = One,
        !.targetScale = One,
        !.currentOpacity = Zero,
        !.materialOpacity = Zero,
        !.currentPosition = card.basePosition,
        !.targetPosition = card.basePosition,
        !.group = [rotation |-> XY(Zero, Zero),
                   position |-> card.basePosition,
                   scale |-> One]]

\* a reset that empties the queue but leaves the card turned over
ResetKeepsFlipped(card) ==
    [ResetKeepsQueue(card) EXCEPT
        !.isFlipped = card.isFlipped,
        !.currentRotation = card.currentRotation,
        !.animations = <<>>]

\* reset()
Reset(card) ==
    [card EXCEPT
        !.isFlipped = FALSE,
        !.isHovered = FALSE,
        !.isSliding = FALSE,
        !.currentRotation = XY(Zero, Zero),
        !.targetRotation = XY(Zero, Zero),
        !.hoverTiltTarget = XY(Zero, Zero),
        !.tiltOffset = XY(Zero, Zero),
        !.baseRotationY = Zero,
        !.currentScale = One,
        !.targetScale = One,
        !.currentOpacity = Zero,
        !.materialOpacity = Zero,
        !.currentPosition = card.basePosition,
        !.targetPosition = card.basePosition,
        !.group = [rotation |-> XY(Zero, Zero),
                   position |-> card.basePosition,
                   scale |-> One],
        !.animations = <<>>]

\* the tail of update(): hover tilt smoothing, then the transforms
ApplyTilt(card) ==
    LET hasFlipAnim == \E i \in 1..Len(card.animations) : card.animations[i].isFlipAnimation
        toward(cur, target) == Add(cur, Mul(Sub(target, cur), TILT_SMOOTHING))
    IN  IF card.isHovered /\ ~hasFlipAnim
        THEN [card EXCEPT !.tiltOffset =
                 XY(toward(card.tiltOffset.x, card.hoverTiltTarget.x),
                    toward(card.tiltOffset.y, card.hoverTiltTarget.y))]
        ELSE IF ~card.isHovered
        THEN [card EXCEPT !.tiltOffset =
                 XY(toward(card.tiltOffset.x, Zero), toward(card.tiltOffset.y, Zero))]
        ELSE card

ApplyTransforms(card) ==
    [card EXCEPT !.group =
        [rotation |-> XY(Add(card.currentRotation.x, card.tiltOffset.x),
                         Add(card.currentRotation.y, card.tiltOffset.y)),
         position |-> card.currentPosition,
         scale |-> card.currentScale]]

\* ------------------------------------------------------------------------
\* class Card: hover, flip, slide
\* ------------------------------------------------------------------------
\* CONFIG
FLIP_DURATION == Q(2, 5)

SLIDE_DURATION == Q(3, 5)

Z_DROP_START == Q(3, 1)

Z_DROP_DURATION == Q(1, 2)

Z_DROP_BOUNCE == Q(3, 20)

GRID_COLS == 4

HOVER_SCALE == Q(21, 20)

\* Math.PI, to the precision the model needs: a number that is not 0
MathPI == Q(22, 7)

\* the identity of the k-th object created after object id; 0 is the identity
\* of objects whose history is not followed
IdAfter(id, k) == IF id = 0 THEN 0 ELSE id + k

\* this.animations.some(a => a.isFlipAnimation)
HasFlipAnim(card) ==
    \E i \in 1..Len(card.animations) : card.animations[i].isFlipAnimation

\* the predicate of setHover's filter: true keeps the animation
KeptByHover(a) ==
    (a.property # "scale" /\ a.property # "positionZ") \/ a.isFlipAnimation

\* a hover filter that keeps everything
KeepAllOnHover(card) == card.animations

\* this.animations.filter(a => (a.property !== 'scale' && a.property !==
\* 'positionZ') || a.isFlipAnimation)
FilterOnHover(card) == SelectSeq(card.animations, KeptByHover)

\* a guard that looks at the flip animation only
HoverSuppressedByFlipOnly(card) == HasFlipAnim(card)

\* if (hasFlipAnim || this.isSliding) return;
HoverSuppressed(card) == HasFlipAnim(card) \/ card.isSliding

\* a setHover that never returns early
SetHoverUnguarded(card, isHovered, id) ==
    LET cleared == [card EXCEPT
            !.isHovered = isHovered,
            !.animations = FilterOnHover(card),
            !.hoverTiltTarget = IF isHovered THEN @ ELSE XY(Zero, Zero)]
    IN  Animate(
            Animate(cleared, id, "scale", card.currentScale,
                    IF isHovered THEN HOVER_SCALE ELSE One,
                    Q(1, 5), "easeOutCubic", "none"),
            IdAfter(id, 1), "positionZ", card.currentPosition.z,
            IF isHovered THEN Q(3, 10) ELSE Zero,
            Q(1, 5), "easeOutCubic", "none")

\* setHover(isHovered)
SetHover(card, isHovered, id) ==
    IF HoverSuppressed(card) THEN card
    ELSE LET cleared == [card EXCEPT
                 !.isHovered = isHovered,
                 !.animations = FilterOnHover(card),
                 !.hoverTiltTarget = IF isHovered THEN @ ELSE XY(Zero, Zero)]
         IN  Animate(
                 Animate(cleared, id, "scale", card.currentScale,
                         IF isHovered THEN HOVER_SCALE ELSE One,
                         Q(1, 5), "easeOutCubic", "none"),
                 IdAfter(id, 1), "positionZ", card.currentPosition.z,
                 IF isHovered THEN Q(3, 10) ELSE Zero,
                 Q(1, 5), "easeOutCubic", "none")

\* updateHoverTilt(localX, localY), with the two products already taken
UpdateHoverTilt(card, tiltX, tiltY) ==
    IF ~card.isHovered THEN card
    ELSE [card EXCEPT !.hoverTiltTarget = XY(tiltX, tiltY)]

\* flip(onComplete)
Flip(card, id, onComplete) ==
    LET anim == [NewAnimation(id, "rotationY", card.currentRotation.y, MathPI,
                              FLIP_DURATION, "easeInOutCubic", onComplete)
                    EXCEPT !.isFlipAnimation = TRUE]
        pushed == [card EXCEPT !.isFlipped = TRUE,
                               !.tiltOffset = XY(Zero, Zero),
                               !.animations = Append(@, anim)]
    IN  Animate(
            Animate(pushed, IdAfter(id, 1), "positionZ", card.currentPosition.z, Zero,
                    FLIP_DURATION, "easeInOutCubic", "none"),
            IdAfter(id, 2), "rotationX", card.currentRotation.x, Zero,
            FLIP_DURATION, "easeInOutCubic", "none")

\* a % b of JavaScript: the sign of the result is the sign of a
Remainder(a, b) == IF a >= 0 THEN a % b ELSE -((-a) % b)

\* slideOut(onComplete); the closure onAnimComplete is the animation's
\* onComplete, and carries the caller's onComplete with it
SlideOut(card, id, onAnimComplete) ==
    LET col == Remainder(card.index, GRID_COLS)
        row == card.index \div GRID_COLS
        sliding == [card EXCEPT !.isSliding = TRUE]
        fifteen == Q(15, 1)
    IN  IF col = 0
        THEN Animate(sliding, id, "positionX", card.currentPosition.x,
                     Sub(card.basePosition.x, fifteen), SLIDE_DURATION, "easeInCubic",
                     onAnimComplete)
        ELSE IF col = GRID_COLS - 1
        THEN Animate(sliding, id, "positionX", card.currentPosition.x,
                     Add(card.basePosition.x, fifteen), SLIDE_DURATION, "easeInCubic",
                     onAnimComplete)
        ELSE IF row = 0
        THEN Animate(sliding, id, "positionY", card.currentPosition.y,
                     Add(card.basePosition.y, fifteen), SLIDE_DURATION, "easeInCubic",
                     onAnimComplete)
        ELSE Animate(sliding, id, "positionY", card.currentPosition.y,
                     Sub(card.basePosition.y, fifteen), SLIDE_DURATION, "easeInCubic",
                     onAnimComplete)

\* slideIn(onComplete, zOffset); firstLeg is the closure that enqueues the
\* second leg, which carries the caller's onComplete
SlideIn(card, id, firstLeg, zOffset) ==
    LET finalTargetZ == card.basePosition.z
        startZ == Add(Add(finalTargetZ, zOffset), Z_DROP_START)
        overshootZ == Sub(Add(finalTargetZ, zOffset), Z_DROP_BOUNCE)
        placed == SetOpacity(
                     [card EXCEPT
                         !.isSliding = TRUE,
                         !.currentPosition = XYZ(card.basePosition.x, card.basePosition.y, startZ),
                         !.group.position = XYZ(card.basePosition.x, card.basePosition.y, startZ)],
                     Zero)
    IN  Animate(
            Animate(placed, id, "opacity", Zero, One, Z_DROP_DURATION, "easeOutCubic", "none"),
            IdAfter(id, 1), "positionZ", startZ, overshootZ,
            Mul(Z_DROP_DURATION, Q(4, 5)), "easeOutCubic", firstLeg)

\* the second leg of slideIn, enqueued by the first leg's onComplete
SlideInSecondLeg(card, anim, id, lastLeg) ==
    Animate(card, id, "positionZ", anim.to, card.basePosition.z,
            Mul(Z_DROP_DURATION, Q(1, 5)), "easeInOutCubic", lastLeg)

\* ------------------------------------------------------------------------
\* State
\* ------------------------------------------------------------------------
MaxAnims == 3

MaxCalls == 3

\* identities available to the animation objects of one run
MaxIds == 6

AnimIds == 1..MaxIds

VARIABLES
    cards,               \* card index -> Card object
    pc,                  \* "idle", or the position inside a running update()
    self,                \* the card whose update() is running
    deltaTime,           \* the argument of the running update()
    idx,                 \* index of the filter pass over this.animations
    kept,                \* the array the filter pass is building
    completedCallbacks,  \* the deferred onComplete list of the running update()
    cbIdx,               \* index of the forEach over completedCallbacks
    nextId,              \* identity of the next animation object
    fired,               \* history: animation id -> number of onComplete invocations
    trace,               \* history: the events of the running update(), in order
    snapshot,            \* history: ids queued when the running update() was called
    enq,                 \* history: animation id -> the object as it was enqueued
    sumDt,               \* history: animation id -> sum of the deltas since enqueue
    calls,               \* history: number of update() calls made
    dropped,             \* history: ids removed from a queue before they completed
    game,                \* the globals of the card game
    state                \* the interactive state of the to-do scene

vars ==
    <<cards, pc, self, deltaTime, idx, kept, completedCallbacks, cbIdx, nextId,
      fired, trace, snapshot, enq, sumDt, calls, dropped, game, state>>

frame == <<pc, self, deltaTime, idx, kept, completedCallbacks, cbIdx>>

NoAnim == NewAnimation(0, "none", Zero, Zero, Zero, "linear", "none")

Ids(anims) == [i \in 1..Len(anims) |-> anims[i].id]

Range(seq) == {seq[i] : i \in 1..Len(seq)}

\* the globals while no game is set up around the cards
NoGame == [showIntro |-> TRUE]

\* the to-do scene while it is not set up
NoState == [mode |-> "none"]

InitWith(n) ==
    /\ cards = [c \in 0..(n - 1) |-> NewCard(c)]
    /\ pc = "idle"
    /\ self = 0
    /\ deltaTime = Zero
    /\ idx = 1
    /\ kept = <<>>
    /\ completedCallbacks = <<>>
    /\ cbIdx = 1
    /\ nextId = 1
    /\ fired = [i \in AnimIds |-> 0]
    /\ trace = <<>>
    /\ snapshot = <<>>
    /\ enq = [i \in AnimIds |-> NoAnim]
    /\ sumDt = [i \in AnimIds |-> Zero]
    /\ calls = 0
    /\ dropped = {}
    /\ state = NoState
    /\ game = NoGame

\* ------------------------------------------------------------------------
\* A caller enqueues an animation: card.animate(...)
\* ------------------------------------------------------------------------
Enqueue(c, property, from, to, duration, easing, onComplete, track) ==
    /\ pc = "idle"
    /\ cards' = [cards EXCEPT ![c] =
                    Animate(@, nextId, property, from, to, duration, easing, onComplete)]
    /\ nextId' = nextId + 1
    /\ enq' = IF track
              THEN [enq EXCEPT ![nextId] =
                       NewAnimation(nextId, property, from, to, duration, easing, onComplete)]
              ELSE enq
    /\ sumDt' = IF track THEN [sumDt EXCEPT ![nextId] = Zero] ELSE sumDt
    /\ UNCHANGED <<frame, fired, trace, snapshot, calls>>
    /\ UNCHANGED <<dropped, game, state>>

\* ------------------------------------------------------------------------
\* card.update(deltaTime), step by step
\* ------------------------------------------------------------------------
\* the call: const completedCallbacks = []; the filter pass starts
UpdateBegin(c, dt, track) ==
    /\ pc = "idle"
    /\ pc' = "filter"
    /\ self' = c
    /\ deltaTime' = dt
    /\ idx' = 1
    /\ kept' = <<>>
    /\ completedCallbacks' = <<>>
    /\ cbIdx' = 1
    /\ trace' = <<>>
    /\ snapshot' = Ids(cards[c].animations)
    /\ sumDt' = IF track
                THEN [i \in AnimIds |-> IF i < nextId THEN Add(sumDt[i], dt) ELSE sumDt[i]]
                ELSE sumDt
    /\ calls' = IF track THEN calls + 1 ELSE calls
    /\ UNCHANGED <<cards, nextId, fired, enq>>
    /\ UNCHANGED <<dropped, game, state>>

\* what an onComplete closure does to its card when called.  The closures of
\* the scheduler's callers: one that does nothing but return, one that
\* enqueues the next leg from where the finished leg ended (as the first leg
\* of slideIn does), one that resets the card (as the slide-out completion of
\* animateOutAndIn does)
\* the closures that create an animation object
Pushes(anim) == anim.onComplete \in {"chain", "slideInBounce"}

Invoke(card, anim, id) ==
    CASE anim.onComplete = "noop" -> card
      [] anim.onComplete = "chain" ->
            Animate(card, id, anim.property, anim.to, anim.from, anim.duration,
                    anim.easing, "noop")
      [] anim.onComplete = "reset" -> Reset(card)
      [] anim.onComplete = "slideOutDone" -> [card EXCEPT !.isSliding = FALSE]
      [] anim.onComplete = "slideInBounce" -> SlideInSecondLeg(card, anim, id, "slideInDone")
      [] anim.onComplete = "slideInDone" -> [card EXCEPT !.isSliding = FALSE]

\* a deferred list that is filled from the front
DeferCallbackFront(cbs, anim) ==
    IF anim.onComplete # "none" THEN <<anim>> \o cbs ELSE cbs

\* completedCallbacks.push(anim.onComplete), when the animation has one
DeferCallback(cbs, anim) ==
    IF anim.onComplete # "none" THEN Append(cbs, anim) ELSE cbs

\* a filter callback that never drops an animation
KeepAnimAlways(anim, progress) == TRUE

\* the value the filter callback returns: false drops the animation
KeepAnim(anim, progress) == ~IsComplete(progress)

\* a pass that loops over the live array and calls onComplete as soon as
\* the animation completes, instead of deferring it
FilterStepInline ==
    /\ pc = "filter"
    /\ idx <= Len(cards[self].animations)
    /\ \E anim \in {Advance(cards[self].animations[idx], deltaTime)} :
       \E progress \in {Progress(anim)} :
       \E easedProgress \in {CallEasing(anim.easing, progress)} :
       \E written \in {WriteSlot(cards[self], anim.property,
                                 Interpolate(anim, easedProgress))} :
       \E advanced \in {[written EXCEPT !.animations[idx] = anim]} :
       \E called \in {IsComplete(progress) /\ anim.onComplete # "none"} :
          /\ cards' = [cards EXCEPT ![self] =
                          IF called THEN Invoke(advanced, anim, nextId) ELSE advanced]
          /\ nextId' = IF called /\ Pushes(anim) THEN nextId + 1 ELSE nextId
          /\ fired' = IF called THEN [fired EXCEPT ![anim.id] = @ + 1] ELSE fired
          /\ kept' = IF KeepAnim(anim, progress) THEN Append(kept, anim) ELSE kept
          /\ trace' = trace
                 \o <<<<"advance", anim.id>>>>
                 \o (IF anim.property \in KnownProperties
                     THEN <<<<"write", anim.id>>>> ELSE <<>>)
                 \o (IF IsComplete(progress) THEN <<<<"complete", anim.id>>>> ELSE <<>>)
                 \o (IF called THEN <<<<"call", anim.id>>>> ELSE <<>>)
                 \o (IF called /\ Pushes(anim)
                     THEN <<<<"push", nextId>>>> ELSE <<>>)
    /\ idx' = idx + 1
    /\ UNCHANGED <<pc, self, deltaTime, completedCallbacks, cbIdx, snapshot, enq, sumDt, calls>>
    /\ UNCHANGED <<dropped, game, state>>

\* one call of the filter callback, on this.animations[idx]
FilterStep ==
    /\ pc = "filter"
    /\ idx <= Len(cards[self].animations)
    /\ \E anim \in {Advance(cards[self].animations[idx], deltaTime)} :
       \E progress \in {Progress(anim)} :
       \E easedProgress \in {CallEasing(anim.easing, progress)} :
       \E written \in {WriteSlot(cards[self], anim.property,
                                 Interpolate(anim, easedProgress))} :
          /\ cards' = [cards EXCEPT ![self] = [written EXCEPT !.animations[idx] = anim]]
          /\ completedCallbacks' =
                 IF IsComplete(progress)
                 THEN DeferCallback(completedCallbacks, anim)
                 ELSE completedCallbacks
          /\ kept' = IF KeepAnim(anim, progress) THEN Append(kept, anim) ELSE kept
          /\ trace' = trace
                 \o <<<<"advance", anim.id>>>>
                 \o (IF anim.property \in KnownProperties
                     THEN <<<<"write", anim.id>>>> ELSE <<>>)
                 \o (IF IsComplete(progress) THEN <<<<"complete", anim.id>>>> ELSE <<>>)
    /\ idx' = idx + 1
    /\ UNCHANGED <<pc, self, deltaTime, cbIdx, nextId, fired, snapshot, enq, sumDt, calls>>
    /\ UNCHANGED <<dropped, game, state>>

\* a pass whose result is thrown away: this.animations keeps every animation
FilterResultDropped ==
    /\ pc = "filter"
    /\ idx > Len(cards[self].animations)
    /\ pc' = "callbacks"
    /\ cbIdx' = 1
    /\ trace' = Append(trace, <<"assign", 0>>)
    /\ UNCHANGED <<cards, self, deltaTime, idx, kept, completedCallbacks, nextId, fired,
                   snapshot, enq, sumDt, calls>>
    /\ UNCHANGED <<dropped, game, state>>

\* this.animations = (the filtered array); the forEach over the callbacks starts
FilterAssign ==
    /\ pc = "filter"
    /\ idx > Len(cards[self].animations)
    /\ cards' = [cards EXCEPT ![self].animations = kept]
    /\ pc' = "callbacks"
    /\ cbIdx' = 1
    /\ trace' = Append(trace, <<"assign", 0>>)
    /\ UNCHANGED <<self, deltaTime, idx, kept, completedCallbacks, nextId, fired,
                   snapshot, enq, sumDt, calls>>
    /\ UNCHANGED <<dropped, game, state>>

\* callback(), for completedCallbacks[cbIdx]
CallbackStep ==
    /\ pc = "callbacks"
    /\ cbIdx <= Len(completedCallbacks)
    /\ LET anim == completedCallbacks[cbIdx]
       IN  /\ cards' = [cards EXCEPT ![self] = Invoke(@, anim, nextId)]
           /\ nextId' = IF Pushes(anim) THEN nextId + 1 ELSE nextId
           /\ fired' = [fired EXCEPT ![anim.id] = @ + 1]
           /\ trace' = trace
                  \o <<<<"call", anim.id>>>>
                  \o (IF Pushes(anim) THEN <<<<"push", nextId>>>> ELSE <<>>)
                  \o (IF anim.onComplete = "reset" THEN <<<<"reset", anim.id>>>> ELSE <<>>)
    /\ cbIdx' = cbIdx + 1
    /\ UNCHANGED <<pc, self, deltaTime, idx, kept, completedCallbacks, snapshot,
                   enq, sumDt, calls>>
    /\ dropped' = IF completedCallbacks[cbIdx].onComplete = "reset"
                  THEN dropped \cup Range(Ids(cards[self].animations))
                  ELSE dropped
    /\ UNCHANGED <<game, state>>

\* the rest of update(): tilt, transforms, return
UpdateEnd ==
    /\ pc = "callbacks"
    /\ cbIdx > Len(completedCallbacks)
    /\ \E tilted \in {ApplyTilt(cards[self])} :
          cards' = [cards EXCEPT ![self] = ApplyTransforms(tilted)]
    /\ pc' = "idle"
    /\ idx' = 1
    /\ kept' = <<>>
    /\ completedCallbacks' = <<>>
    /\ cbIdx' = 1
    /\ trace' = <<>>
    /\ snapshot' = <<>>
    /\ UNCHANGED <<self, deltaTime, nextId, fired, enq, sumDt, calls>>
    /\ UNCHANGED <<dropped, game, state>>

UpdateSteps == FilterStep \/ FilterAssign \/ CallbackStep \/ UpdateEnd

\* ------------------------------------------------------------------------
\* One animation: every property name, endpoint, duration, easing and delta
\* ------------------------------------------------------------------------
Three == <<3, 1>>

Quarter == <<1, 4>>

Durations == {Zero, Half, One, Two}

Froms == {Zero, Three}

Tos == {Zero, One}

Easings == RepoEasings \cup {"linear", "halfWay"}

PropertyNames == KnownProperties \cup {"color"}

Deltas == {Neg(Half), Zero, Quarter, Half, One}

EnqueueOne ==
    /\ nextId = 1
    /\ \E property \in PropertyNames, from \in Froms, to \in Tos,
          duration \in Durations, easing \in Easings, onComplete \in {"none", "noop"} :
          Enqueue(0, property, from, to, duration, easing, onComplete, TRUE)

UpdateOne ==
    /\ nextId > 1
    /\ calls < MaxCalls
    /\ \E dt \in Deltas : UpdateBegin(0, dt, TRUE)

InitOne == InitWith(1)

NextOne == EnqueueOne \/ UpdateOne \/ FilterStep \/ FilterAssign \/ CallbackStep \/ UpdateEnd

SpecOne == InitOne /\ [][NextOne]_vars

\* ------------------------------------------------------------------------
\* Properties of one animation
\* ------------------------------------------------------------------------
Queue(c) == cards[c].animations

Enqueued(id) == id < nextId

\* the deltas of the update() calls made since animation id was enqueued sum
\* to exactly its positive duration, and the last of those calls has returned
SumReachedDuration(id) ==
    /\ Enqueued(id)
    /\ pc = "idle"
    /\ calls >= 1
    /\ Less(Zero, enq[id].duration)
    /\ sumDt[id] = enq[id].duration

EndsAtTo(id) ==
    /\ enq[id].property \in KnownProperties => Slot(cards[0], enq[id].property) = enq[id].to
    /\ enq[id].onComplete # "none" => fired[id] = 1

\* C1 as stated: for every from, to, duration > 0 and easing, after deltas that
\* sum to exactly the duration the slot holds exactly `to` and onComplete has
\* been invoked exactly once.
C1_AnyEasingEndsAtTo ==
    \A id \in AnimIds : SumReachedDuration(id) => EndsAtTo(id)

\* C1 (amended): for every from, to, duration > 0 and every easing with
\* easing(1) = 1, after update() calls whose deltas sum to exactly the duration
\* the targeted slot holds exactly `to`, the animation is out of the queue and
\* its onComplete has been invoked exactly once; and in the scenario
\* enqueue('opacity', 0, 1, 0.5, linear), the first update(0.25) leaves
\* opacity = 0.5 with the animation still queued.
C1_EndsAtTo ==
    /\ \A id \in AnimIds :
          SumReachedDuration(id) /\ CallEasing(enq[id].easing, One) = One
             => EndsAtTo(id) /\ Queue(0) = <<>>
    /\ ( /\ pc = "idle"
         /\ calls = 1
         /\ sumDt[1] = Quarter
         /\ enq[1] = NewAnimation(1, "opacity", Zero, One, Half, "linear", "noop") )
       => /\ cards[0].currentOpacity = Half
          /\ Len(Queue(0)) = 1
          /\ fired[1] = 0

\* C1 witness: opacity 0 -> 1 over 0.5 s, linear, has completed after two
\* update() calls whose deltas sum to 0.5: opacity is 1, the queue is empty
\* and the callback ran once.
C1_Witness ==
    /\ pc = "idle"
    /\ calls = 2
    /\ enq[1] = NewAnimation(1, "opacity", Zero, One, Half, "linear", "noop")
    /\ sumDt[1] = Half
    /\ cards[0].currentOpacity = One
    /\ Queue(0) = <<>>
    /\ fired[1] = 1

\* a <= b as real numbers
Leq(a, b) == Geq(b, a)

\* the animation object with identity id in a queue, as a set of at most one
WithId(anims, id) == {anims[i] : i \in {j \in 1..Len(anims) : anims[j].id = id}}

\* C8: for every queued animation, an update() call with a non-negative delta
\* never lowers the progress min(elapsed / duration, 1) and never takes it
\* above 1; for a positive duration the progress before and after are numbers
\* with before <= after <= 1.
C8_ProgressMonotone ==
    [][ \A c \in DOMAIN cards : \A id \in AnimIds :
          \A a \in WithId(cards[c].animations, id) :
             \A b \in WithId(cards'[c].animations, id) :
                Geq(deltaTime, Zero) /\ a.elapsed # b.elapsed
                   => /\ ~Less(Progress(b), Progress(a))
                      /\ ~Less(One, Progress(b))
                      /\ Less(Zero, a.duration)
                            => Leq(Progress(a), Progress(b)) /\ Leq(Progress(b), One)
      ]_vars

\* C8 witness: a second update() call has advanced an animation past its
\* duration, so the clamp decides its progress, after a first call left it
\* short of the duration.
C8_Witness ==
    /\ pc = "filter"
    /\ calls = 2
    /\ idx = 2
    /\ Geq(deltaTime, Zero)
    /\ \E a \in WithId(Queue(0), 1) :
          /\ Less(Zero, a.duration)
          /\ Less(a.duration, a.elapsed)
          /\ Less(Sub(a.elapsed, deltaTime), a.duration)
          /\ Less(Zero, Sub(a.elapsed, deltaTime))
          /\ Progress(a) = One

\* C10 as stated: an animation whose property is not a recognized slot is
\* never advanced by update(): the call fails instead of going on.
C10_UnknownPropertyFails ==
    \A i \in 1..Len(trace) :
       trace[i][1] = "advance" => enq[trace[i][2]].property \in KnownProperties

\* C11 as stated: an animation with duration 0 (here with an easing that ends
\* at 1, on a slot of the chain) has, when the first update() call after its
\* enqueue returns, for every delta >= 0 including 0, `to` in its slot, is out
\* of the queue and has had its onComplete invoked once.
C11_ZeroDurationCompletesAtOnce ==
    ( /\ pc = "idle"
      /\ calls = 1
      /\ enq[1].duration = Zero
      /\ enq[1].property \in KnownProperties
      /\ CallEasing(enq[1].easing, One) = One
      /\ Geq(sumDt[1], Zero) )
    => /\ Slot(cards[0], enq[1].property) = enq[1].to
       /\ Queue(0) = <<>>
       /\ enq[1].onComplete # "none" => fired[1] = 1

\* C12 as stated: every filter callback, whatever the sign of the delta, leaves
\* the animation's elapsed time no lower than it was and passes the easing a
\* progress between 0 and 1.
C12_ProgressClampedBothEnds ==
    [][ (pc = "filter" /\ idx' = idx + 1) =>
           LET a == cards[self].animations[idx]
               b == cards'[self].animations[idx]
           IN  /\ Geq(b.elapsed, a.elapsed)
               /\ Geq(Progress(b), Zero)
               /\ Leq(Progress(b), One)
      ]_vars

\* ------------------------------------------------------------------------
\* Several animations with completion callbacks on one card
\* ------------------------------------------------------------------------
SchedProperties == {"opacity", "positionZ"}

SchedDurations == {Half, One}

SchedDeltas == {Half, One}

Callbacks == {"none", "noop", "chain", "reset"}

\* animations queued with a callback that will enqueue one more animation
Reserved == Cardinality({i \in 1..Len(Queue(0)) : Queue(0)[i].onComplete = "chain"})

EnqueueSched ==
    \E property \in SchedProperties, duration \in SchedDurations, onComplete \in Callbacks :
       /\ nextId + Reserved + (IF onComplete = "chain" THEN 1 ELSE 0) <= MaxAnims
       /\ Enqueue(0, property, Zero, One, duration, "easeInOutCubic", onComplete, FALSE)

UpdateSched == \E dt \in SchedDeltas : UpdateBegin(0, dt, FALSE)

InitSched == InitWith(1)

NextSched ==
    EnqueueSched \/ UpdateSched \/ FilterStep \/ FilterAssign \/ CallbackStep \/ UpdateEnd

SpecSched == InitSched /\ [][NextSched]_vars

\* ------------------------------------------------------------------------
\* Properties of the queue and its callbacks
\* ------------------------------------------------------------------------
\* the ids of the events of one kind in the running update(), in order
RECURSIVE EventIds(_, _)
EventIds(t, kind) ==
    IF t = <<>> THEN <<>>
    ELSE (IF Head(t)[1] = kind THEN <<Head(t)[2]>> ELSE <<>>) \o EventIds(Tail(t), kind)

QueuedIds(c) == Range(Ids(Queue(c)))

\* position of the first event <<kind, id>> in the trace, 0 if there is none
FirstEvent(kind, id) ==
    LET at == {i \in 1..Len(trace) : trace[i] = <<kind, id>>}
    IN  IF at = {} THEN 0 ELSE CHOOSE i \in at : \A j \in at : i <= j

\* every callback of the running update() has returned
CallbacksDone == pc = "callbacks" /\ cbIdx > Len(completedCallbacks)

\* C2: each onComplete is invoked at most once over the whole run, and an
\* animation whose onComplete has run, or whose progress has reached 1, is
\* not in the queue of any later update() call, so no later call advances it
\* or writes its slot through it.
C2_CompletesOnce ==
    /\ \A id \in AnimIds : fired[id] <= 1
    /\ \A id \in AnimIds : fired[id] >= 1 => id \notin QueuedIds(0)
    /\ pc # "filter" => \A i \in 1..Len(Queue(0)) : ~IsComplete(Progress(Queue(0)[i]))
    /\ \A id \in Range(snapshot) : fired[id] = 0 \/ pc = "callbacks"

\* C2 witness: a later update() call is advancing another animation after
\* animation 1 has completed and its onComplete has run.
C2_Witness ==
    /\ fired[1] = 1
    /\ pc = "filter"
    /\ idx > 1
    /\ 1 \notin Range(snapshot)
    /\ FirstEvent("advance", 2) > 0

\* C4: within one update() call no animation is advanced or written after an
\* onComplete of that call has been invoked, and when the first onComplete
\* is invoked every animation queued at the start of the call, completing or
\* not, has been advanced and has written its slot.
C4_WritesBeforeCallbacks ==
    /\ \A i \in 1..Len(trace) : \A j \in 1..Len(trace) :
          i < j /\ trace[i][1] = "call"
             => trace[j][1] \notin {"advance", "write", "complete", "assign"}
    /\ EventIds(trace, "call") # <<>> =>
          \A id \in Range(snapshot) :
             FirstEvent("advance", id) > 0 /\ FirstEvent("write", id) > 0

\* C4 witness: an onComplete has been invoked in an update() call that also
\* advanced an animation that did not complete.
C4_Witness ==
    /\ pc = "callbacks"
    /\ EventIds(trace, "call") # <<>>
    /\ \E id \in Range(snapshot) :
          /\ FirstEvent("write", id) > 0
          /\ FirstEvent("complete", id) = 0
          /\ FirstEvent("write", id) > FirstEvent("complete", EventIds(trace, "call")[1])

\* C5: from the first onComplete invocation of an update() call on, the
\* card's queue holds none of the animations that completed in that call.
C5_RemovedBeforeCallbacks ==
    (pc = "callbacks" \/ EventIds(trace, "call") # <<>>) =>
       QueuedIds(self) \cap Range(EventIds(trace, "complete")) = {}

\* C5 witness: a callback that resets the card and a callback that appends
\* to the queue have run in an update() call that completed two animations.
C5_Witness ==
    /\ pc = "callbacks"
    /\ Len(EventIds(trace, "complete")) >= 2
    /\ EventIds(trace, "call") # <<>>
    /\ (EventIds(trace, "push") # <<>> \/ EventIds(trace, "reset") # <<>>)

\* the members of seq that are in the set keep, in the order of seq
RECURSIVE Restrict(_, _)
Restrict(seq, keep) ==
    IF seq = <<>> THEN <<>>
    ELSE (IF Head(seq) \in keep THEN <<Head(seq)>> ELSE <<>>) \o Restrict(Tail(seq), keep)

\* C6: the onComplete callbacks invoked in one update() call are invoked in
\* the order in which their animations stood in the queue when the call began.
C6_CallbacksInQueueOrder ==
    EventIds(trace, "call") = Restrict(snapshot, Range(EventIds(trace, "call")))

\* C6 witness: two animations completed in the same update() call and both
\* callbacks have been invoked.
C6_Witness ==
    /\ pc = "callbacks"
    /\ Len(EventIds(trace, "call")) >= 2

\* ------------------------------------------------------------------------
\* Chained legs, and termination under the render loop
\* ------------------------------------------------------------------------
ChainDurations == {Half, One}

ChainDeltas == {Half, One}

\* callers whose callbacks leave the queue alone or append the next leg
EnqueueChain ==
    \E property \in SchedProperties, duration \in ChainDurations,
       onComplete \in {"none", "noop", "chain"} :
       /\ nextId + Reserved + (IF onComplete = "chain" THEN 1 ELSE 0) <= MaxAnims
       /\ Enqueue(0, property, Three, Zero, duration, "easeOutCubic", onComplete, FALSE)

\* one frame of the render loop: deltaTime = (currentTime - lastTime) / 1000
UpdateChain == \E dt \in ChainDeltas : UpdateBegin(0, dt, FALSE)

NextChain ==
    EnqueueChain \/ UpdateChain \/ FilterStep \/ FilterAssign \/ CallbackStep \/ UpdateEnd

SpecChain == InitWith(1) /\ [][NextChain]_vars

\* the render loop calls update() on every frame, with a positive delta, and
\* a call that has started runs to its end
SpecChainFair == SpecChain /\ WF_vars(UpdateChain) /\ WF_vars(UpdateSteps)

\* the animations enqueued by a callback of the running update()
Pushed == Range(EventIds(trace, "push"))

C9_EventuallyRemoved ==
    \A id \in AnimIds : (id \in QueuedIds(0)) ~> (id \notin QueuedIds(0))

\* C9 witness: an animation that needed more than one update() call has
\* been removed by the filter pass that took its progress to 1.
C9_Witness ==
    /\ pc = "callbacks"
    /\ \E a \in Range(completedCallbacks) :
          /\ Less(deltaTime, a.elapsed)
          /\ Less(Zero, a.duration)
          /\ FirstEvent("complete", a.id) > 0
          /\ a.id \notin QueuedIds(0)

\* ------------------------------------------------------------------------
\* Two animations on different properties, enqueued together
\* ------------------------------------------------------------------------
PairPropertiesA == {"opacity", "positionY"}

PairPropertiesB == {"positionZ", "scale"}

PairDeltas == {Zero, Half, One}

\* card.animate(A...); card.animate(B...)
EnqueuePair ==
    /\ pc = "idle"
    /\ nextId = 1
    /\ \E propertyA \in PairPropertiesA, propertyB \in PairPropertiesB,
          durationA \in Durations, durationB \in Durations,
          easingA \in Easings, easingB \in Easings,
          onCompleteA \in {"none", "noop"} :
          /\ cards' = [cards EXCEPT ![0] =
                Animate(Animate(@, 1, propertyA, Zero, One, durationA, easingA, onCompleteA),
                        2, propertyB, Three, Zero, durationB, easingB, "none")]
          /\ enq' = [enq EXCEPT
                ![1] = NewAnimation(1, propertyA, Zero, One, durationA, easingA, onCompleteA),
                ![2] = NewAnimation(2, propertyB, Three, Zero, durationB, easingB, "none")]
    /\ nextId' = 3
    /\ UNCHANGED <<frame, fired, trace, snapshot, sumDt, calls>>
    /\ UNCHANGED <<dropped, game, state>>

UpdatePair ==
    /\ nextId > 1
    /\ calls < MaxCalls
    /\ \E dt \in PairDeltas : UpdateBegin(0, dt, TRUE)

NextPair ==
    EnqueuePair \/ UpdatePair \/ FilterStep \/ FilterAssign \/ CallbackStep \/ UpdateEnd

SpecPair == InitWith(1) /\ [][NextPair]_vars

\* from + (to - from) * easing(min(t / duration, 1))
ValueAt(anim, t) ==
    Interpolate(anim, CallEasing(anim.easing, MathMin(Div(t, anim.duration), One)))

\* A of duration 1 and B of duration 2, enqueued together, after update()
\* calls whose deltas total 1.5
PairScenario ==
    /\ pc = "idle"
    /\ nextId = 3
    /\ enq[1].duration = One
    /\ enq[2].duration = Two
    /\ sumDt[1] = <<3, 2>>

\* C7 as stated: in the scenario A has been removed with its slot equal to
\* A.to, and B is still queued at progress 0.75.
C7_ScenarioEndsAtTo ==
    PairScenario =>
       /\ 1 \notin QueuedIds(0)
       /\ Slot(cards[0], enq[1].property) = enq[1].to
       /\ \E b \in WithId(Queue(0), 2) : Progress(b) = <<3, 4>>

\* C7 (amended): after update() calls whose non-negative deltas total t since
\* the two were enqueued, each animation's slot holds
\* from + (to - from) * easing(min(t / duration, 1)) for its own duration and
\* easing, and the animation is queued, with elapsed = t, exactly while
\* min(t / duration, 1) < 1; in the scenario A is removed with its slot at
\* A.from + (A.to - A.from) * easing(1), which is A.to when A's easing ends at
\* 1, and B is still queued at progress 0.75 with its slot at that point of
\* its own curve.
C7_IndependentAdvance ==
    /\ (pc = "idle" /\ nextId = 3 /\ calls >= 1) =>
          \A id \in {1, 2} :
             /\ Slot(cards[0], enq[id].property) = ValueAt(enq[id], sumDt[id])
             /\ id \in QueuedIds(0)
                   <=> ~IsComplete(MathMin(Div(sumDt[id], enq[id].duration), One))
             /\ \A a \in WithId(Queue(0), id) : a.elapsed = sumDt[id]
    /\ PairScenario =>
          /\ 1 \notin QueuedIds(0)
          /\ Slot(cards[0], enq[1].property)
                = Interpolate(enq[1], CallEasing(enq[1].easing, One))
          /\ CallEasing(enq[1].easing, One) = One
                => Slot(cards[0], enq[1].property) = enq[1].to
          /\ \E b \in WithId(Queue(0), 2) : Progress(b) = <<3, 4>>
          /\ Slot(cards[0], enq[2].property)
                = Interpolate(enq[2], CallEasing(enq[2].easing, <<3, 4>>))

\* C7 witness: A (opacity, 1 s, ease-out) has completed at 1 and B
\* (positionZ 3 -> 0, 2 s, ease-in) is queued at progress 0.75, its slot at
\* 3 - 3 * 27/64.
C7_Witness ==
    /\ PairScenario
    /\ enq[1].property = "opacity"
    /\ enq[1].easing = "easeOutCubic"
    /\ enq[2].property = "positionZ"
    /\ enq[2].easing = "easeInCubic"
    /\ cards[0].currentOpacity = One
    /\ cards[0].currentPosition.z = <<111, 64>>
    /\ Ids(Queue(0)) = <<2>>

\* ------------------------------------------------------------------------
\* Two animations on the same property, the first not cancelled
\* ------------------------------------------------------------------------
SameProperties == {"positionZ", "scale"}

SameDurations == {Half, One, Two}

SameDeltas == {Quarter, Half, One}

\* card.animate(p, 0, 1, ...) and, at any later time, card.animate(p, 3, 0, ...)
\* on the same property p
EnqueueSame ==
    \E duration \in SameDurations, easing \in {"linear", "easeOutCubic"},
       onComplete \in {"none", "noop"} :
       \/ /\ nextId = 1
          /\ \E property \in SameProperties :
                Enqueue(0, property, Zero, One, duration, easing, onComplete, TRUE)
       \/ /\ nextId = 2
          /\ Enqueue(0, enq[1].property, Three, Zero, duration, easing, onComplete, TRUE)

UpdateSame ==
    /\ nextId > 1
    /\ calls < MaxCalls
    /\ \E dt \in SameDeltas : UpdateBegin(0, dt, TRUE)

NextSame ==
    EnqueueSame \/ UpdateSame \/ FilterStep \/ FilterAssign \/ CallbackStep \/ UpdateEnd

SpecSame == InitWith(1) /\ [][NextSame]_vars

\* C13: when the callbacks of an update() call are done, every animation that
\* was queued at the call has written the slot in that call, in queue order;
\* each is still queued exactly while the deltas since its own enqueue sum to
\* less than its own duration; and the slot holds the value of the animation
\* that was last in the queue at the call, at its own point of its own curve.
C13_LastWriteWins ==
    (CallbacksDone /\ snapshot # <<>>) =>
       LET last == snapshot[Len(snapshot)]
       IN  /\ EventIds(trace, "write") = snapshot
           /\ \A i \in 1..Len(snapshot) :
                 snapshot[i] \in QueuedIds(0)
                    <=> Less(sumDt[snapshot[i]], enq[snapshot[i]].duration)
           /\ Slot(cards[0], enq[last].property) = ValueAt(enq[last], sumDt[last])

\* C13 witness: both animations were queued at the call and are still queued
\* after it, and the slot holds the second one's value, which differs from
\* what the first one wrote.
C13_Witness ==
    /\ CallbacksDone
    /\ snapshot = <<1, 2>>
    /\ QueuedIds(0) = {1, 2}
    /\ Slot(cards[0], enq[1].property) = ValueAt(enq[2], sumDt[2])
    /\ ValueAt(enq[1], sumDt[1]) # ValueAt(enq[2], sumDt[2])

\* ------------------------------------------------------------------------
\* One card under hover, flip, slide, reset and update calls
\* ------------------------------------------------------------------------
\* -localX * MAX_TILT and localY * MAX_TILT at the card's corners
MAX_TILT == Q(1, 5)

HoverDeltas == {Q(1, 5), One}

\* the ids of the animations a call removed from the queue
Removed(before, after) == Range(Ids(before.animations)) \ Range(Ids(after.animations))

\* a call made on the card between frames
CardCall(after, used) ==
    /\ pc = "idle"
    /\ nextId + used - 1 <= MaxIds
    /\ cards' = [cards EXCEPT ![0] = after]
    /\ nextId' = IF Len(after.animations) > 0
                    /\ after.animations[Len(after.animations)].id >= nextId
                 THEN nextId + used ELSE nextId
    /\ dropped' = dropped \cup Removed(cards[0], after)
    /\ UNCHANGED <<frame, fired, trace, snapshot, enq, sumDt, calls, game, state>>

HoverCall ==
    \E isHovered \in BOOLEAN :
       CardCall(SetHover(cards[0], isHovered, nextId), 2)

TiltCall ==
    \E tiltX \in {MAX_TILT}, tiltY \in {Neg(MAX_TILT)} :
       CardCall(UpdateHoverTilt(cards[0], tiltX, tiltY), 0)

\* the callers flip a card that shows its back
FlipCall ==
    \E onComplete \in {"none"} :
       ~cards[0].isFlipped /\ CardCall(Flip(cards[0], nextId, onComplete), 3)

\* the callers slide a card that is at rest
SlideOutCall == ~cards[0].isSliding /\ CardCall(SlideOut(cards[0], nextId, "slideOutDone"), 1)

SlideInCall ==
    ~cards[0].isSliding /\ CardCall(SlideIn(cards[0], nextId, "slideInBounce", Q(1, 20)), 3)

ResetCall == CardCall(Reset(cards[0]), 0)

\* card.animate(...) by a caller, with a callback, on the card as constructed
AnimateCall ==
    /\ nextId = 1
    /\ \E property \in {"opacity", "positionZ"}, onComplete \in {"noop", "reset"} :
          CardCall(Animate(cards[0], nextId, property, Zero, One, One, "linear", onComplete), 1)

UpdateHover ==
    /\ calls < MaxCalls
    /\ nextId <= MaxIds
    /\ \E dt \in HoverDeltas : UpdateBegin(0, dt, TRUE)

NextHover ==
    \/ HoverCall \/ TiltCall \/ FlipCall \/ SlideOutCall \/ SlideInCall \/ ResetCall
    \/ AnimateCall
    \/ UpdateHover \/ FilterStep \/ FilterAssign \/ CallbackStep \/ UpdateEnd

SpecHover == InitWith(1) /\ [][NextHover]_vars

\* a flip-tagged animation is queued, or the card is sliding
FlippingOrSliding(card) ==
    card.isSliding \/ \E a \in Range(card.animations) : a.isFlipAnimation

\* what setHover(h) does on the card as it stands between two frames: nothing
\* to isHovered and the queue exactly when the card is flipping or sliding
SetHoverSuppressedExactly ==
    pc = "idle" =>
       \A h \in BOOLEAN :
          LET after == SetHover(cards[0], h, nextId)
          IN  IF FlippingOrSliding(cards[0])
              THEN /\ after.isHovered = cards[0].isHovered
                   /\ after.animations = cards[0].animations
              ELSE /\ after.isHovered = h
                   /\ after.animations # cards[0].animations

\* the step of update() that smooths the tilt
TiltStep == pc = "callbacks" /\ pc' = "idle"

\* tiltOffset moved by update() toward a target
Toward(offset, target) ==
    XY(Add(offset.x, Mul(Sub(target.x, offset.x), Q(3, 20))),
       Add(offset.y, Mul(Sub(target.y, offset.y), Q(3, 20))))

\* C14 as stated: setHover is suppressed exactly while the card is flipping
\* or sliding, and in that state update() does not move the tiltOffset of the
\* hovered card toward hoverTiltTarget.
C14_NoTiltWhileFlippingOrSliding ==
    /\ []SetHoverSuppressedExactly
    /\ [][ (TiltStep /\ FlippingOrSliding(cards[self]) /\ cards[self].isHovered)
              => cards'[self].tiltOffset = cards[self].tiltOffset ]_vars

\* C14 (amended): setHover(h) leaves isHovered and the queue unchanged exactly
\* while a flip-tagged animation is queued or the card is sliding, and takes
\* effect otherwise; update() leaves tiltOffset where it is (at 0, where
\* flip() put it) while a flip-tagged animation is queued; while the card is
\* sliding with no flip-tagged animation queued, update() still moves the
\* tiltOffset of a hovered card toward hoverTiltTarget.
C14_HoverSuppressed ==
    /\ []SetHoverSuppressedExactly
    /\ [][ TiltStep =>
              /\ HasFlipAnim(cards[self]) =>
                    /\ cards'[self].tiltOffset = cards[self].tiltOffset
                    /\ cards[self].tiltOffset = XY(Zero, Zero)
              /\ (~HasFlipAnim(cards[self]) /\ cards[self].isHovered) =>
                    cards'[self].tiltOffset
                       = Toward(cards[self].tiltOffset, cards[self].hoverTiltTarget)
         ]_vars

\* C14 witness: a hovered card with a tilt target was flipped; an update()
\* call has advanced the flip, which is still queued, and the tilt has not
\* moved; in this state setHover(false) changes nothing.
C14_Witness ==
    /\ pc = "idle"
    /\ cards[0].isHovered
    /\ cards[0].hoverTiltTarget # XY(Zero, Zero)
    /\ cards[0].tiltOffset = XY(Zero, Zero)
    /\ \E a \in Range(Queue(0)) : a.isFlipAnimation /\ a.elapsed # Zero
    /\ SetHover(cards[0], FALSE, nextId) = cards[0]

\* the animations of a queue on one property, in queue order
OnProperty(anims, property) ==
    LET targets(a) == a.property = property IN SelectSeq(anims, targets)

\* the animations of a queue on neither 'scale' nor 'positionZ', in queue order
OnOtherProperties(anims) ==
    LET other(a) == a.property # "scale" /\ a.property # "positionZ"
    IN  SelectSeq(anims, other)

\* C15: whenever setHover(h) is not suppressed, the queue it returns holds
\* exactly one 'scale' and exactly one 'positionZ' animation, both new (none
\* of the previously queued ones survives), not yet advanced, starting from
\* the card's current scale and current z, and the animations on all other
\* properties are the same objects in the same order as before.
C15_CancelBeforeReplace ==
    (pc = "idle" /\ ~FlippingOrSliding(cards[0])) =>
       \A h \in BOOLEAN :
          LET after == SetHover(cards[0], h, nextId).animations
              scale == OnProperty(after, "scale")
              positionZ == OnProperty(after, "positionZ")
          IN  /\ Len(scale) = 1
              /\ Len(positionZ) = 1
              /\ scale[1].id \notin QueuedIds(0)
              /\ positionZ[1].id \notin QueuedIds(0)
              /\ scale[1].from = cards[0].currentScale
              /\ positionZ[1].from = cards[0].currentPosition.z
              /\ scale[1].elapsed = Zero
              /\ positionZ[1].elapsed = Zero
              /\ OnOtherProperties(after) = OnOtherProperties(Queue(0))

\* C15 witness: a second setHover has replaced the pair the first one
\* enqueued, while the caller's opacity animation, already advanced by an
\* update(), is still the first of the queue.
C15_Witness ==
    /\ pc = "idle"
    /\ Len(Queue(0)) = 3
    /\ Queue(0)[1].property = "opacity"
    /\ Queue(0)[1].elapsed # Zero
    /\ Queue(0)[2].property = "scale"
    /\ Queue(0)[3].property = "positionZ"
    /\ Queue(0)[2].id > 3
    /\ Queue(0)[2].elapsed = Zero
    /\ {2, 3} \subseteq dropped

\* the events the step adds to the history of the running update()
NewEvents ==
    IF Len(trace') > Len(trace) THEN SubSeq(trace', Len(trace) + 1, Len(trace')) ELSE <<>>

\* C17: reset() on the card, in whatever state it is, empties the queue and
\* restores rotation 0, scale 1, opacity 0, position = basePosition and
\* isFlipped = isHovered = isSliding = false; an animation that was dropped
\* from the queue by reset() or by setHover's filter has never had its
\* onComplete invoked and never has it invoked later, is never back in the
\* queue, and no later step of any update() advances it, writes a slot
\* through it, completes it or calls it.
C17_DroppedNeverRuns ==
    /\ [](LET r == Reset(cards[0])
          IN  /\ r.animations = <<>>
              /\ r.currentRotation = XY(Zero, Zero)
              /\ r.currentScale = One
              /\ r.currentOpacity = Zero
              /\ r.currentPosition = cards[0].basePosition
              /\ ~r.isFlipped /\ ~r.isHovered /\ ~r.isSliding)
    /\ [](\A id \in dropped : fired[id] = 0 /\ id \notin QueuedIds(0))
    /\ [][ \A i \in 1..Len(NewEvents) :
              NewEvents[i][1] \in {"advance", "write", "complete", "call"}
                 => NewEvents[i][2] \notin dropped ]_vars

\* C17 witness: the caller's animation, which has an onComplete, was dropped
\* before it completed; a later update() call is advancing the animations
\* that were enqueued after the drop, and the dropped one is not among them
\* and has not been called.
C17_Witness ==
    /\ pc = "filter"
    /\ idx > 1
    /\ 1 \in dropped
    /\ 1 \notin Range(snapshot)
    /\ fired[1] = 0
    /\ FirstEvent("advance", snapshot[1]) > 0

\* ------------------------------------------------------------------------
\* The card game: globals, event handlers, timers and the render loop
\* ------------------------------------------------------------------------
\* cards on the table (the program lays out 8)
NumSlots == 2

\* CONFIG.TOTAL_IMAGE_SETS
TOTAL_IMAGE_SETS == 6

\* image sets the card game is played with
GameSets == 1

Slots == 0..(NumSlots - 1)

\* new Card(-1), the intro card
IntroCard == 0 - 1

\* null, for hoveredCard
NoCard == 0 - 2

INTRO_OFFSET == Q(3, 10)

CARD_WIDTH == Q(3, 2)

CARD_HEIGHT == Mul(Q(3, 2), Q(1669, 986))

CARD_GAP == Q(2, 5)

\* the card createCards() makes for slot i, at its place in the grid
CreateCard(i) ==
    LET cols == Q(GRID_COLS, 1)
        totalWidth == Add(Mul(cols, CARD_WIDTH), Mul(Sub(cols, One), CARD_GAP))
        totalHeight == Add(Mul(Two, CARD_HEIGHT), CARD_GAP)
        startX == Add(Neg(Div(totalWidth, Two)), Div(CARD_WIDTH, Two))
        startY == Sub(Div(totalHeight, Two), Div(CARD_HEIGHT, Two))
        col == Q(Remainder(i, GRID_COLS), 1)
        row == Q(i \div GRID_COLS, 1)
    IN  SetPosition(NewCard(i),
                    Add(startX, Mul(col, Add(CARD_WIDTH, CARD_GAP))),
                    Sub(startY, Mul(row, Add(CARD_HEIGHT, CARD_GAP))),
                    Zero)

\* hideCardsForIntro(), for one card
HideForIntro(card) ==
    [SetOpacity(card, Zero) EXCEPT !.state = "busy", !.isHovered = FALSE]

\* the orders refillSets() can shuffle n sets into
ShufflesOf(n) == {p \in [1..n -> 1..n] : \A i, j \in 1..n : p[i] = p[j] => i = j}

\* the orders refillSets() produces in the card game
Shuffles == ShufflesOf(GameSets)

\* a getNextSet that takes the head of the list without looking at it
GetNextSetUnchecked(g, shuffle) ==
    LET refilled == IF g.availableSets = <<>> THEN shuffle ELSE g.availableSets
    IN  [g EXCEPT !.lastShownSet = refilled[1], !.availableSets = Tail(refilled)]

\* getNextSet(); shuffle is the order refillSets() produces if it is called
GetNextSet(g, shuffle) ==
    LET refilled == IF g.availableSets = <<>> THEN shuffle ELSE g.availableSets
        differ == {i \in 1..Len(refilled) : refilled[i] # g.lastShownSet}
        first == IF differ = {} THEN 0 ELSE CHOOSE i \in differ : \A j \in differ : i <= j
        front == IF refilled[1] = g.lastShownSet /\ Len(refilled) > 1 /\ first > 1
                 THEN <<refilled[first]>> \o SubSeq(refilled, 1, first - 1)
                         \o SubSeq(refilled, first + 1, Len(refilled))
                 ELSE refilled
    IN  [g EXCEPT !.lastShownSet = front[1], !.availableSets = Tail(front)]

\* a pending setTimeout callback
Timer(kind, a, b) == [kind |-> kind, a |-> a, b |-> b]

\* the cards and the globals together
World(cs, g) == [cards |-> cs, game |-> g]

\* onMouseMove(event), the ray hitting card `target` (or nothing) at its centre
OnMouseMove(w, target) ==
    LET g == w.game
        left == IF g.hoveredCard # NoCard
                THEN [w EXCEPT !.cards[g.hoveredCard] = SetHover(@, FALSE, 0)]
                ELSE w
        allowed == IF g.isIntroSequence
                   THEN target = IntroCard /\ g.introCard
                           /\ ~left.cards[IntroCard].isFlipped
                   ELSE TRUE
        entered == IF target # NoCard /\ allowed
                   THEN [left EXCEPT !.cards[target] = SetHover(@, TRUE, 0)]
                   ELSE left
        moved == IF target # g.hoveredCard
                 THEN [entered EXCEPT !.game.hoveredCard = target]
                 ELSE w
    IN  IF moved.game.hoveredCard # NoCard
        THEN [moved EXCEPT !.cards[moved.game.hoveredCard] = UpdateHoverTilt(@, Zero, Zero)]
        ELSE moved

\* handleIntroCardClick()
HandleIntroCardClick(w) ==
    IF ~w.game.introCard \/ w.cards[IntroCard].isFlipped \/ w.cards[IntroCard].isSliding
    THEN w
    ELSE [w EXCEPT !.cards[IntroCard] =
             Flip([@ EXCEPT !.isHovered = FALSE, !.hoverTiltTarget = XY(Zero, Zero)],
                  0, "introFlipDone")]

\* the slots handleCardClick can pick the execution card from
OtherAvailable(g, index) == {i \in Slots : g.slotStates[i] = "available" /\ i # index}

\* a click that marks the clicked slot only
HandleCardClickAlone(w, index, executionIndex, shuffle) ==
    IF w.game.showIntro THEN w
    ELSE IF w.game.slotStates[index] # "available" THEN w
    ELSE [w EXCEPT !.game.slotStates[index] = "busy"]

\* handleCardClick(index); executionIndex is the random pick among the other
\* available slots, shuffle the order refillSets() produces if it is called
HandleCardClick(w, index, executionIndex, shuffle) ==
    IF w.game.showIntro THEN w
    ELSE IF w.game.slotStates[index] # "available" THEN w
    ELSE IF OtherAvailable(w.game, index) = {} THEN w
    ELSE LET g == GetNextSet(w.game, shuffle)
             cs == [w.cards EXCEPT
                       ![index] = Flip(SetHover([@ EXCEPT !.state = "busy"], FALSE, 0),
                                       0, "none"),
                       ![executionIndex] = SetHover([@ EXCEPT !.state = "busy"], FALSE, 0)]
         IN  World(cs,
                   [g EXCEPT
                       !.slotStates[index] = "busy",
                       !.slotStates[executionIndex] = "busy",
                       !.timers = @ \cup {Timer("flipExec", index, executionIndex),
                                          Timer("outAndIn", index, executionIndex)}])

\* an intro drop that does not mark the card as sliding
IntroDropInNotSliding(card, zOffset) ==
    LET finalTargetZ == card.basePosition.z
        startZ == Add(Add(finalTargetZ, zOffset), Z_DROP_START)
        position == XYZ(card.currentPosition.x, card.basePosition.y, startZ)
        placed == SetOpacity([card EXCEPT !.currentPosition = position,
                                          !.group.position = position],
                             Zero)
    IN  Animate(
            Animate(placed, 0, "opacity", Zero, One, Z_DROP_DURATION, "easeOutCubic", "none"),
            0, "positionZ", startZ, finalTargetZ, Z_DROP_DURATION, "easeOutCubic",
            "introDropDone")

\* introDropInNoBounce(card, zOffset, onComplete)
IntroDropInNoBounce(card, zOffset) ==
    LET finalTargetZ == card.basePosition.z
        startZ == Add(Add(finalTargetZ, zOffset), Z_DROP_START)
        position == XYZ(card.currentPosition.x, card.basePosition.y, startZ)
        placed == SetOpacity([card EXCEPT !.isSliding = TRUE,
                                          !.currentPosition = position,
                                          !.group.position = position],
                             Zero)
    IN  Animate(
            Animate(placed, 0, "opacity", Zero, One, Z_DROP_DURATION, "easeOutCubic", "none"),
            0, "positionZ", startZ, finalTargetZ, Z_DROP_DURATION, "easeOutCubic",
            "introDropDone")

\* index % 2 === 0 ? CONFIG.INTRO_OFFSET : -CONFIG.INTRO_OFFSET
IntroOffset(index) == IF index % 2 = 0 THEN INTRO_OFFSET ELSE Neg(INTRO_OFFSET)

\* the requestAnimationFrame callback of startIntroPlacement()
IntroPlacement(w) ==
    LET prepared(card) ==
            LET startZ == Add(Add(card.basePosition.z, IntroOffset(card.index)), Z_DROP_START)
            IN  [SetOpacity(card, Zero) EXCEPT !.state = "busy",
                                               !.currentPosition.z = startZ,
                                               !.group.position.z = startZ]
    IN  World([c \in DOMAIN w.cards |->
                  IF c = 0 THEN IntroDropInNoBounce(prepared(w.cards[c]), IntroOffset(c))
                  ELSE IF c \in Slots THEN prepared(w.cards[c])
                  ELSE w.cards[c]],
              [w.game EXCEPT !.introSlides = 0,
                             !.timers = @ \cup {Timer("introDrop", i, i) : i \in Slots \ {0}}])

\* animateOutAndIn(idxA, idxB), up to the two slideOut calls
AnimateOutAndIn(w, idxA, idxB) ==
    [w EXCEPT !.cards[idxA] = SlideOut(@, 0, "slideOutDone"),
              !.game.pairs = @ \cup {[a |-> idxA, b |-> idxB, down |-> 0, in |-> 0]},
              !.game.timers = @ \cup {Timer("slideOutB", idxA, idxB)}]

\* the reveal cycle a card is in
PairOf(g, c) == CHOOSE p \in g.pairs : p.a = c \/ p.b = c

\* onSlideDownComplete of animateOutAndIn, called for card c of pair p
OnSlideDownComplete(w, p) ==
    LET counted == [p EXCEPT !.down = @ + 1]
        pairOffset == Q(1, 20)
        startZ == Add(w.cards[p.b].basePosition.z, Z_DROP_START)
        resetA == [Reset(w.cards[p.a]) EXCEPT !.state = "busy"]
        resetB == [SetOpacity(Reset(w.cards[p.b]), Zero) EXCEPT
                      !.currentPosition.z = startZ,
                      !.group.position.z = startZ,
                      !.state = "busy"]
    IN  IF counted.down = 2
        THEN [w EXCEPT !.cards[p.a] = SlideIn(resetA, 0, "slideInBounce", pairOffset),
                       !.cards[p.b] = resetB,
                       !.game.pairs = (@ \ {p}) \cup {counted},
                       !.game.timers = @ \cup {Timer("slideInB", p.a, p.b)}]
        ELSE [w EXCEPT !.game.pairs = (@ \ {p}) \cup {counted}]

\* an onSlideInComplete that also hides both cards of the pair
OnSlideInCompleteHiding(w, p) ==
    LET counted == [p EXCEPT !.in = @ + 1]
    IN  IF counted.in = 2
        THEN [w EXCEPT !.game.slotStates[p.a] = "available",
                       !.game.slotStates[p.b] = "available",
                       !.cards[p.a] = SetOpacity([@ EXCEPT !.state = "available"], Zero),
                       !.cards[p.b] = SetOpacity([@ EXCEPT !.state = "available"], Zero),
                       !.game.pairs = @ \ {p}]
        ELSE [w EXCEPT !.game.pairs = (@ \ {p}) \cup {counted}]

\* onSlideInComplete of animateOutAndIn, called for pair p
OnSlideInComplete(w, p) ==
    LET counted == [p EXCEPT !.in = @ + 1]
    IN  IF counted.in = 2
        THEN [w EXCEPT !.game.slotStates[p.a] = "available",
                       !.game.slotStates[p.b] = "available",
                       !.cards[p.a].state = "available",
                       !.cards[p.b].state = "available",
                       !.game.pairs = @ \ {p}]
        ELSE [w EXCEPT !.game.pairs = (@ \ {p}) \cup {counted}]

\* an onSlideInComplete of the intro that releases the slots at the first drop
OnIntroSlideInCompleteAtFirst(w) ==
    LET n == w.game.introSlides + 1
    IN  World([c \in DOMAIN w.cards |->
                  IF c \in Slots THEN [w.cards[c] EXCEPT !.state = "available"]
                  ELSE w.cards[c]],
              [w.game EXCEPT !.introSlides = n,
                             !.slotStates = [i \in Slots |-> "available"]])

\* onSlideInComplete of startIntroPlacement
OnIntroSlideInComplete(w) ==
    LET n == w.game.introSlides + 1
    IN  IF n = NumSlots
        THEN World([c \in DOMAIN w.cards |->
                       IF c \in Slots THEN [w.cards[c] EXCEPT !.state = "available"]
                       ELSE w.cards[c]],
                   [w.game EXCEPT !.introSlides = n,
                                  !.slotStates = [i \in Slots |-> "available"]])
        ELSE [w EXCEPT !.game.introSlides = n]

\* the onComplete closures of the game, called by update() of card c
InvokeInGame(w, c, anim) ==
    LET notSliding == [w EXCEPT !.cards[c].isSliding = FALSE]
    IN  CASE anim.onComplete = "introFlipDone" ->
                [w EXCEPT !.game.timers = @ \cup {Timer("introSlideOut", c, c)}]
          [] anim.onComplete = "introSlideOutDone" ->
                [notSliding EXCEPT !.game.introCard = FALSE,
                                   !.game.isIntroSequence = FALSE,
                                   !.game.showIntro = FALSE,
                                   !.game.placement = "requested"]
          [] anim.onComplete = "introDropDone" -> OnIntroSlideInComplete(notSliding)
          [] anim.onComplete = "slideOutDone" ->
                OnSlideDownComplete(notSliding, PairOf(w.game, c))
          [] anim.onComplete = "slideInBounce" ->
                [w EXCEPT !.cards[c] = SlideInSecondLeg(@, anim, 0, "slideInDone")]
          [] anim.onComplete = "slideInDone" ->
                OnSlideInComplete(notSliding, PairOf(w.game, c))

\* callback(), for completedCallbacks[cbIdx], when the callback is a closure
\* of the game
CallbackStepInGame ==
    /\ pc = "callbacks"
    /\ cbIdx <= Len(completedCallbacks)
    /\ \E w \in {InvokeInGame(World(cards, game), self, completedCallbacks[cbIdx])} :
          /\ cards' = w.cards
          /\ game' = w.game
    /\ trace' = Append(trace, <<"call", completedCallbacks[cbIdx].id>>)
    /\ cbIdx' = cbIdx + 1
    /\ UNCHANGED <<pc, self, deltaTime, idx, kept, completedCallbacks, nextId, fired,
                   snapshot, enq, sumDt, calls, dropped, state>>

\* the setTimeout callbacks
FireTimer(w, t) ==
    LET fired0 == [w EXCEPT !.game.timers = @ \ {t}]
    IN  CASE t.kind = "flipExec" -> [fired0 EXCEPT !.cards[t.b] = Flip(@, 0, "none")]
          [] t.kind = "outAndIn" -> AnimateOutAndIn(fired0, t.a, t.b)
          [] t.kind = "slideOutB" ->
                [fired0 EXCEPT !.cards[t.b] = SlideOut(@, 0, "slideOutDone")]
          [] t.kind = "slideInB" ->
                [fired0 EXCEPT !.cards[t.b] = SlideIn(@, 0, "slideInBounce", Neg(Q(1, 20)))]
          [] t.kind = "introSlideOut" ->
                [fired0 EXCEPT !.cards[IntroCard] = SlideOut(@, 0, "introSlideOutDone")]
          [] t.kind = "introDrop" ->
                [fired0 EXCEPT !.cards[t.a] = IntroDropInNoBounce(@, IntroOffset(t.a))]

\* timers set by one call run in the order of their delays
TimerDue(g, t) ==
    /\ t \in g.timers
    /\ t.kind = "outAndIn" => Timer("flipExec", t.a, t.b) \notin g.timers
    /\ t.kind = "introDrop" =>
          \A i \in Slots : i < t.a => Timer("introDrop", i, i) \notin g.timers

\* the state after init(): the intro card is on the table, the cards are
\* hidden and busy, the sets have been shuffled once
InitGame ==
    /\ cards = [c \in {IntroCard} \cup Slots |->
                   IF c = IntroCard
                   THEN SetOpacity(SetPosition(NewCard(IntroCard), Zero, Zero, Zero), One)
                   ELSE HideForIntro(CreateCard(c))]
    /\ \E shuffle \in Shuffles :
          game = [ showIntro |-> TRUE,
                   isIntroSequence |-> TRUE,
                   introCard |-> TRUE,
                   slotStates |-> [i \in Slots |-> "busy"],
                   hoveredCard |-> NoCard,
                   availableSets |-> shuffle,
                   lastShownSet |-> 0 - 1,
                   timers |-> {},
                   pairs |-> {},
                   introSlides |-> 0,
                   placement |-> "none",
                   inFrame |-> FALSE,
                   frameDt |-> Zero ]
    /\ pc = "idle"
    /\ self = 0
    /\ deltaTime = Zero
    /\ idx = 1
    /\ kept = <<>>
    /\ completedCallbacks = <<>>
    /\ cbIdx = 1
    /\ nextId = 1
    /\ fired = [i \in AnimIds |-> 0]
    /\ trace = <<>>
    /\ snapshot = <<>>
    /\ enq = [i \in AnimIds |-> NoAnim]
    /\ sumDt = [i \in AnimIds |-> Zero]
    /\ calls = 0
    /\ dropped = {}
    /\ state = NoState

GameDeltas == {Half}

\* an event handler or timer callback runs between two frames
GameStep(w) ==
    /\ pc = "idle"
    /\ ~game.inFrame
    /\ cards' = w.cards
    /\ game' = w.game
    /\ UNCHANGED <<frame, nextId, fired, trace, snapshot, enq, sumDt, calls, dropped, state>>

\* the cards the ray can hit: the intro card only while it is in the scene
Hittable == Slots \cup (IF game.introCard THEN {IntroCard} ELSE {})

\* the pointer moves over no card, the intro card or the first card
HoverTargets == {NoCard, IntroCard, 0}

MouseMove ==
    \E target \in HoverTargets \cap ({NoCard} \cup Hittable) :
       GameStep(OnMouseMove(World(cards, game), target))

\* no reveal is under way: no timer is pending and no pair is sliding
Quiet == game.timers = {} /\ game.pairs = {}

\* onClick(event), the ray hitting card `target`; the visitor starts one
\* reveal at a time
Click ==
    \E target \in Hittable :
       /\ Quiet
       /\ IF game.isIntroSequence
          THEN target = IntroCard /\ GameStep(HandleIntroCardClick(World(cards, game)))
          ELSE /\ target \in Slots
               /\ \E shuffle \in Shuffles :
                  \E executionIndex \in
                        (IF OtherAvailable(game, target) = {} THEN {target}
                         ELSE OtherAvailable(game, target)) :
                     GameStep(HandleCardClick(World(cards, game), target, executionIndex, shuffle))

TimerFires ==
    \E t \in game.timers :
       TimerDue(game, t) /\ GameStep(FireTimer(World(cards, game), t))

\* animate(currentTime): the frame starts
FrameStart ==
    /\ pc = "idle"
    /\ ~game.inFrame
    /\ \E dt \in GameDeltas : game' = [game EXCEPT !.inFrame = TRUE, !.frameDt = dt]
    /\ self' = NoCard
    /\ UNCHANGED <<cards, pc, deltaTime, idx, kept, completedCallbacks, cbIdx, nextId,
                   fired, trace, snapshot, enq, sumDt, calls, dropped, state>>

\* the card the loop of animate() updates next, the intro card last
NextInFrame ==
    IF self = NoCard THEN 0
    ELSE IF self \in Slots /\ self < NumSlots - 1 THEN self + 1
    ELSE IF self = NumSlots - 1 /\ game.introCard THEN IntroCard
    ELSE NoCard

\* card.update(deltaTime) of the loop, for a card that has animations queued
CardUpdate ==
    /\ game.inFrame
    /\ NextInFrame # NoCard
    /\ cards[NextInFrame].animations # <<>>
    /\ UpdateBegin(NextInFrame, game.frameDt, FALSE)

\* card.update(deltaTime) of the loop, for a card with an empty queue: the
\* filter keeps nothing, no callback runs, the tilt and the transforms are
\* applied
CardUpdateIdle ==
    /\ pc = "idle"
    /\ game.inFrame
    /\ NextInFrame # NoCard
    /\ cards[NextInFrame].animations = <<>>
    /\ cards' = [cards EXCEPT ![NextInFrame] = ApplyTransforms(ApplyTilt(@))]
    /\ self' = NextInFrame
    /\ deltaTime' = game.frameDt
    /\ UNCHANGED <<pc, idx, kept, completedCallbacks, cbIdx, nextId, fired, trace,
                   snapshot, enq, sumDt, calls, dropped, game, state>>

\* the frame ends; the callback startIntroPlacement() handed to
\* requestAnimationFrame runs after animate() of the frame that follows
FrameEnd ==
    /\ pc = "idle"
    /\ game.inFrame
    /\ NextInFrame = NoCard
    /\ \E w \in {IF game.placement = "due"
                 THEN IntroPlacement(World(cards, [game EXCEPT !.placement = "none"]))
                 ELSE IF game.placement = "requested"
                 THEN World(cards, [game EXCEPT !.placement = "due"])
                 ELSE World(cards, game)} :
          /\ cards' = w.cards
          /\ game' = [w.game EXCEPT !.inFrame = FALSE]
    /\ UNCHANGED <<frame, nextId, fired, trace, snapshot, enq, sumDt, calls, dropped, state>>

FrameSteps ==
    CardUpdate \/ CardUpdateIdle \/ FilterStep \/ FilterAssign \/ CallbackStepInGame \/ UpdateEnd \/ FrameEnd

NextGame ==
    \/ MouseMove \/ Click \/ TimerFires \/ FrameStart
    \/ CardUpdate \/ CardUpdateIdle
    \/ FilterStep \/ FilterAssign \/ CallbackStepInGame \/ UpdateEnd \/ FrameEnd

SpecGame == InitGame /\ [][NextGame]_vars

\* ------------------------------------------------------------------------
\* C16: what card.update(dt) changes of the other cards
\* ------------------------------------------------------------------------
\* the animation queue and the current-value slots of a card
QueueAndValues(card) ==
    <<card.animations, card.currentPosition, card.currentRotation, card.currentScale,
      card.currentOpacity>>

\* the cards other than the one being updated whose queue or current values
\* this step changes
TouchedOthers == {c \in DOMAIN cards \ {self} : QueueAndValues(cards'[c]) # QueueAndValues(cards[c])}

C18_NoTwoOnOneProperty ==
    \A c \in DOMAIN cards :
       \A i, j \in 1..Len(cards[c].animations) :
          i # j => cards[c].animations[i].property # cards[c].animations[j].property

\* ------------------------------------------------------------------------
\* C20: what handleCardClick(i) changes
\* ------------------------------------------------------------------------
\* the slots whose state differs between two worlds
SlotsChanged(before, after) ==
    {k \in Slots : after.game.slotStates[k] # before.game.slotStates[k]}

SpecGameFair ==
    /\ SpecGame
    /\ WF_vars(FrameStart \/ FrameSteps)
    /\ SF_vars(TimerFires)

\* slot i is in a reveal cycle: handleCardClick has marked it and the cycle
\* has not yet released it
InReveal(i) ==
    \/ \E t \in game.timers : t.kind = "outAndIn" /\ (t.a = i \/ t.b = i)
    \/ \E p \in game.pairs : p.a = i \/ p.b = i

\* the slots a reveal cycle holds busy
Revealing == {i \in Slots : InReveal(i) /\ game.slotStates[i] = "busy"}

IntroRunning == game.introSlides < NumSlots

\* handleCardClick changes nothing, whatever slot is clicked
CardClicksAreNoOps ==
    \A i \in Slots : \A shuffle \in Shuffles :
       \A j \in (IF OtherAvailable(game, i) = {} THEN {i} ELSE OtherAvailable(game, i)) :
          HandleCardClick(World(cards, game), i, j, shuffle) = World(cards, game)

\* C21: while the intro is in progress every slot is busy and every
\* handleCardClick is a no-op; the intro card's click is acted on at most once
\* (once flipped it stays flipped, and a click on a flipped, sliding or
\* removed intro card does nothing); the slots become 'available' together,
\* in the completion callback of the last intro drop
C21_IntroBlocksCards ==
    /\ [](IntroRunning =>
             /\ \A i \in Slots : game.slotStates[i] = "busy"
             /\ CardClicksAreNoOps)
    /\ []((~game.introCard \/ cards[IntroCard].isFlipped \/ cards[IntroCard].isSliding) =>
             HandleIntroCardClick(World(cards, game)) = World(cards, game))
    /\ [][/\ cards[IntroCard].isFlipped => cards'[IntroCard].isFlipped
          /\ (IntroRunning /\ \E i \in Slots : game.slotStates'[i] = "available") =>
                /\ \A i \in Slots : game.slotStates'[i] = "available"
                /\ game.introSlides = NumSlots - 1
                /\ game.introSlides' = NumSlots
                /\ pc = "callbacks"
                /\ completedCallbacks[cbIdx].onComplete = "introDropDone"]_vars

\* the intro card is gone, a first drop has completed and another has not
C21_Witness ==
    /\ ~game.showIntro
    /\ ~game.introCard
    /\ game.introSlides > 0
    /\ IntroRunning
    /\ \E c \in Slots : cards[c].isSliding

AtRest(card) ==
    /\ card.state = "available"
    /\ ~card.isFlipped
    /\ ~card.isSliding
    /\ card.currentRotation.y = Zero
    /\ ~HasFlipAnim(card)

\* the flip-tagged animations in the queue of a card
FlipAnims(card) == SelectSeq(card.animations, LAMBDA a : a.isFlipAnimation)

\* C23: a slot is 'available' only if its card is at rest (card state
\* 'available', not flipped, not sliding, currentRotation.y = 0, no
\* flip-tagged animation queued); and flip is never started on a card that is
\* flipped, flipping or sliding
C23_AvailableIsAtRest ==
    /\ [](\A i \in Slots : game.slotStates[i] = "available" => AtRest(cards[i]))
    /\ [][\A c \in DOMAIN cards :
             Len(FlipAnims(cards'[c])) > Len(FlipAnims(cards[c])) =>
                /\ ~cards[c].isFlipped
                /\ ~cards[c].isSliding
                /\ ~HasFlipAnim(cards[c])]_vars

\* after the intro and a whole reveal cycle, the cards of the pair are back
\* in available slots
C23_Witness ==
    /\ ~IntroRunning
    /\ game.lastShownSet > 0
    /\ game.pairs = {}
    /\ game.timers = {}
    /\ \A i \in Slots : game.slotStates[i] = "available"

\* ------------------------------------------------------------------------
\* C24: the hovered card
\* ------------------------------------------------------------------------
\* the cards in the scene
InScene == Slots \cup (IF game.introCard THEN {IntroCard} ELSE {})

\* C24: a card with isHovered = true is the card hoveredCard refers to, so at
\* most one card is hovered and a card the pointer has left is not
C24_HoveredIsHoveredCard ==
    \A c \in InScene : cards[c].isHovered => game.hoveredCard = c

\* ------------------------------------------------------------------------
\* getNextSet() called again and again, with all TOTAL_IMAGE_SETS sets
\* ------------------------------------------------------------------------
\* after init(): refillSets() has shuffled the sets, nothing has been shown.
\* trace holds the numbers the last two calls returned, snapshot the order
\* the last call's refill produced
InitSets ==
    /\ \E shuffle \in ShufflesOf(TOTAL_IMAGE_SETS) :
          game = [NoGame EXCEPT !.showIntro = FALSE] @@
                 [availableSets |-> shuffle, lastShownSet |-> 0 - 1]
    /\ cards = [c \in {0} |-> NewCard(0)]
    /\ pc = "idle"
    /\ self = 0
    /\ deltaTime = Zero
    /\ idx = 1
    /\ kept = <<>>
    /\ completedCallbacks = <<>>
    /\ cbIdx = 1
    /\ nextId = 1
    /\ fired = [i \in AnimIds |-> 0]
    /\ trace = <<>>
    /\ snapshot = <<>>
    /\ enq = [i \in AnimIds |-> NoAnim]
    /\ sumDt = [i \in AnimIds |-> Zero]
    /\ calls = 0
    /\ dropped = {}
    /\ state = NoState

\* getNextSet()
GetNextSetCall ==
    \E shuffle \in (IF game.availableSets = <<>> THEN ShufflesOf(TOTAL_IMAGE_SETS)
                    ELSE {<<>>}) :
       /\ game' = GetNextSet(game, shuffle)
       /\ trace' = <<game.lastShownSet, game'.lastShownSet>>
       /\ snapshot' = IF game.availableSets = <<>> THEN shuffle ELSE <<>>
       /\ UNCHANGED <<cards, frame, nextId, fired, enq, sumDt, calls, dropped, state>>

NextSets == GetNextSetCall

SpecSets == InitSets /\ [][NextSets]_vars

\* C25: getNextSet never returns the number the call before it returned,
\* whatever the shuffles and however many calls were made, and it returns a
\* number in 1..TOTAL_IMAGE_SETS
C25_NoImmediateRepeat ==
    trace # <<>> =>
       /\ trace[2] # trace[1]
       /\ trace[2] \in 1..TOTAL_IMAGE_SETS
       /\ trace[2] = game.lastShownSet

\* the list ran empty, the refill put the set shown last at its head, and the
\* call returned another one
C25_Witness ==
    /\ trace # <<>>
    /\ snapshot # <<>>
    /\ snapshot[1] = trace[1]
    /\ trace[2] = snapshot[2]
    /\ game.availableSets[1] = trace[1]

\* ------------------------------------------------------------------------
\* The to-do scene: state, pointer handler and render loop
\* ------------------------------------------------------------------------
\* not-to-do items the list starts with (the program lists 7)
NumItems == 2

\* not-to-do items ticked in one run
MaxTicks == 2

\* if (currentActiveCount >= 8): room in the not-to-do list
MaxActiveItems == 8

\* the object createNotTodoItem pushes
NewItem(index) == [index |-> index, progress |-> Zero, ticked |-> FALSE, removed |-> FALSE]

\* const state = { ... }; spawnQueue holds the number of pending spawn times
InitialState ==
    [ isCompleted |-> FALSE,
      mode |-> "todo",
      transitionProgress |-> Zero,
      transitionTriggered |-> FALSE,
      soundPlayed |-> FALSE,
      notTodoCount |-> 4,
      items |-> <<>>,
      spawnQueue |-> 0 ]

\* the font loader's callback: listItems.forEach(createNotTodoItem)
CreateListItems(st) == [st EXCEPT !.items = [i \in 1..NumItems |-> NewItem(i - 1)]]

\* a pointer handler that toggles the checkbox in every mode
OnPointerDownAnyMode(st, todoHit, hitIndex) ==
    LET isValid == hitIndex \in 1..Len(st.items) /\ ~st.items[hitIndex].removed
        toggled == [st EXCEPT !.isCompleted = ~@]
    IN  IF ~todoHit /\ ~isValid THEN st
        ELSE IF isValid /\ st.mode = "notTodo"
        THEN IF ~st.items[hitIndex].ticked
             THEN [st EXCEPT !.items[hitIndex].ticked = TRUE, !.notTodoCount = @ + 1]
             ELSE st
        ELSE IF todoHit
        THEN IF toggled.isCompleted /\ ~toggled.transitionTriggered
             THEN [toggled EXCEPT !.transitionTriggered = TRUE,
                                  !.mode = "transition",
                                  !.transitionProgress = Zero]
             ELSE toggled
        ELSE st

\* onPointerDown(event): the ray hits the to-do item (todoHit) and the hit
\* area of not-to-do item hitIndex (0: none)
OnPointerDown(st, todoHit, hitIndex) ==
    LET isValid == hitIndex \in 1..Len(st.items) /\ ~st.items[hitIndex].removed
        toggled == [st EXCEPT !.isCompleted = ~@]
    IN  IF ~todoHit /\ hitIndex = 0 THEN st
        ELSE IF ~todoHit /\ ~isValid THEN st
        ELSE IF isValid /\ st.mode = "notTodo"
        THEN IF ~st.items[hitIndex].ticked /\ ~st.items[hitIndex].removed
             THEN [st EXCEPT !.items[hitIndex].ticked = TRUE, !.notTodoCount = @ + 1]
             ELSE st
        ELSE IF todoHit /\ st.mode = "todo"
        THEN IF toggled.isCompleted /\ ~toggled.transitionTriggered
             THEN [toggled EXCEPT !.transitionTriggered = TRUE,
                                  !.mode = "transition",
                                  !.transitionProgress = Zero]
             ELSE toggled
        ELSE st

\* Math.min(1, state.transitionProgress + 0.015)
Advanced(st) == MathMin(One, Add(st.transitionProgress, Q(3, 200)))

\* playThump() is called by this frame
Thumps(st) ==
    st.mode = "transition" /\ Geq(Advanced(st), Q(19, 20)) /\ ~st.soundPlayed

\* a transition that plays the thump in every frame past 0.95
ModeTransitionLoud(st) ==
    IF st.mode # "transition" THEN st
    ELSE IF Geq(Advanced(st), One)
         THEN [st EXCEPT !.transitionProgress = Advanced(st), !.mode = "notTodo"]
         ELSE [st EXCEPT !.transitionProgress = Advanced(st)]

\* animate(), MODE TRANSITION
ModeTransition(st) ==
    IF st.mode # "transition" THEN st
    ELSE LET moved == [st EXCEPT !.transitionProgress = Advanced(st)]
             sounded == IF Thumps(st) THEN [moved EXCEPT !.soundPlayed = TRUE] ELSE moved
         IN  IF Geq(sounded.transitionProgress, One)
             THEN [sounded EXCEPT !.mode = "notTodo", !.soundPlayed = FALSE]
             ELSE sounded

\* the items that are not removed
ActiveItems(items) == {i \in 1..Len(items) : ~items[i].removed}

\* the tick animation of one item
TickAnimation(item) ==
    IF item.removed \/ ~item.ticked THEN item
    ELSE LET progress == MathMin(One, Add(item.progress, Q(1, 25)))
         IN  [item EXCEPT !.progress = progress,
                          !.removed = Geq(progress, Q(49, 50))]

\* the spawn queue filter, for `due` entries whose time has passed
RECURSIVE Spawn(_, _)
Spawn(items, due) ==
    IF due = 0 THEN items
    ELSE IF Cardinality(ActiveItems(items)) >= MaxActiveItems THEN Spawn(items, due - 1)
    ELSE Spawn(Append(items, NewItem(Len(items))), due - 1)

\* animate(), NOT TO DO LIST ITEM ANIMATION
ItemAnimation(st, due) ==
    IF st.mode # "notTodo" \/ st.items = <<>> THEN st
    ELSE LET animated == [i \in 1..Len(st.items) |-> TickAnimation(st.items[i])]
             removedNow == {i \in 1..Len(st.items) : animated[i].removed /\ ~st.items[i].removed}
         IN  [st EXCEPT !.items = Spawn(animated, due),
                        !.spawnQueue = @ - due + Cardinality(removedNow)]

InitTodo ==
    /\ state = InitialState
    /\ game = NoGame
    /\ cards = [c \in {0} |-> NewCard(0)]
    /\ pc = "idle"
    /\ self = 0
    /\ deltaTime = Zero
    /\ idx = 1
    /\ kept = <<>>
    /\ completedCallbacks = <<>>
    /\ cbIdx = 1
    /\ nextId = 1
    /\ fired = [i \in AnimIds |-> 0]
    /\ trace = <<>>
    /\ snapshot = <<>>
    /\ enq = [i \in AnimIds |-> NoAnim]
    /\ sumDt = [i \in AnimIds |-> Zero]
    /\ calls = 0
    /\ dropped = {}

\* the font has loaded
FontLoaded ==
    /\ state.items = <<>>
    /\ state' = CreateListItems(state)
    /\ UNCHANGED <<cards, frame, nextId, fired, trace, snapshot, enq, sumDt, calls,
                   dropped, game>>

\* a pointerdown event
PointerDown ==
    \E todoHit \in BOOLEAN : \E hitIndex \in 0..Len(state.items) :
       /\ OnPointerDown(state, todoHit, hitIndex).notTodoCount <= 4 + MaxTicks
       /\ state' = OnPointerDown(state, todoHit, hitIndex)
       /\ UNCHANGED <<cards, frame, nextId, fired, trace, snapshot, enq, sumDt, calls,
                      dropped, game>>

\* animate(); trace records the playThump() calls
TodoFrame ==
    \E due \in 0..state.spawnQueue :
       /\ state' = ItemAnimation(ModeTransition(state), due)
       /\ trace' = IF Thumps(state) THEN Append(trace, <<"thump", 0>>) ELSE trace
       /\ UNCHANGED <<cards, frame, nextId, fired, snapshot, enq, sumDt, calls,
                      dropped, game>>

NextTodo == FontLoaded \/ PointerDown \/ TodoFrame

SpecTodo == InitTodo /\ [][NextTodo]_vars

\* requestAnimationFrame(animate) keeps the frames coming
SpecTodoFair == SpecTodo /\ WF_vars(TodoFrame)

\* ------------------------------------------------------------------------
\* C26: the mode only moves forward
\* ------------------------------------------------------------------------
\* the place of a mode in todo -> transition -> notTodo
ModeRank(mode) == CASE mode = "todo" -> 1 [] mode = "transition" -> 2 [] mode = "notTodo" -> 3

\* the items this step ticks
TickedNow ==
    {i \in 1..Len(state.items) : state'.items[i].ticked /\ ~state.items[i].ticked}

\* C26: the mode moves only forward, one step at a time, todo -> transition
\* -> notTodo, and never leaves notTodo; the checkbox is toggled only in mode
\* 'todo', so isCompleted is true in every other mode; not-to-do items are
\* ticked only in mode 'notTodo'
C26_ModeOnlyForward ==
    /\ [](state.mode # "todo" => state.isCompleted)
    /\ [][/\ ModeRank(state'.mode) \in {ModeRank(state.mode), ModeRank(state.mode) + 1}
          /\ state'.isCompleted # state.isCompleted => state.mode = "todo"
          /\ TickedNow # {} => state.mode = "notTodo"]_vars

\* the scene has reached mode notTodo, an item is ticked and pointer events
\* keep arriving
C26_Witness ==
    /\ state.mode = "notTodo"
    /\ state.isCompleted
    /\ \E i \in 1..Len(state.items) : state.items[i].ticked /\ ~state.items[i].removed
    /\ \E i \in 1..Len(state.items) : state.items[i].removed

\* ------------------------------------------------------------------------
\* C27: the transition runs once and ends
\* ------------------------------------------------------------------------
\* C27: the transition is triggered at most once and, once triggered, the
\* mode becomes 'notTodo' under repeated frames; transitionProgress never
\* decreases and never exceeds 1, the mode leaves 'transition' in the frame in
\* which it reaches 1, and the thump is played exactly once, during the
\* transition
C27_TransitionRunsOnce ==
    /\ (state.transitionTriggered ~> state.mode = "notTodo")
    /\ [](/\ Leq(state.transitionProgress, One)
          /\ state.mode = "transition" => Less(state.transitionProgress, One)
          /\ state.mode = "todo" => trace = <<>>
          /\ state.mode = "transition" => Len(trace) <= 1
          /\ state.mode = "notTodo" => Len(trace) = 1 /\ state.transitionProgress = One)
    /\ [][/\ state.transitionTriggered => state'.transitionTriggered
          /\ (state'.mode = "transition" /\ state.mode # "transition") =>
                ~state.transitionTriggered /\ state'.transitionTriggered
          /\ Leq(state.transitionProgress, state'.transitionProgress)]_vars

\* the thump has been played and the transition is still running
C27_Witness ==
    /\ state.mode = "transition"
    /\ Len(trace) = 1
    /\ state.soundPlayed
    /\ Geq(state.transitionProgress, Q(19, 20))

====
